---- MODULE Spec2Model ----
(***************************************************************************)
(* Lowering of AST nodes to HIR nodes (src/svlog/hir/lowering.rs).         *)
(*                                                                         *)
(* The lowering context `cx` is modelled by three tables:                  *)
(*   nodes  the node table: nodes[id] is the AST node registered under     *)
(*          node id `id` together with its parent (rib) link;              *)
(*   diags  the diagnostics emitted so far, in emission order;             *)
(*   hirs   hirs[id] is the result of hir_of(id), or NoHir if that node    *)
(*          has not been lowered yet.                                      *)
(* `ports` holds the partial port records that the last run of             *)
(* lower_module_ports_nonansi left in its local map `decls`, and `logs`    *)
(* the warn! and error! lines written to the log, which is not the         *)
(* diagnostics sink.                                                       *)
(***************************************************************************)
EXTENDS Integers, Sequences, FiniteSets, TLC

VARIABLES nodes, diags, hirs, ports, logs

vars == <<nodes, diags, hirs, ports, logs>>

----------------------------------------------------------------------------
(* Option<T>: None is the empty sequence, Some(x) the one-element sequence. *)

None == <<>>
Some(x) == <<x>>
IsSome(o) == Len(o) = 1
IsNone(o) == Len(o) = 0

(* Result<T>: Err(()) and Ok(v). *)
Err == [ok |-> FALSE]
Ok(v) == [ok |-> TRUE, val |-> v]

NoHir == [ok |-> FALSE, pending |-> TRUE]

(* A panic: the call does not return (Option::expect, Option::unwrap). *)
Panic == [ok |-> FALSE, panic |-> TRUE]

Range(s) == {s[i] : i \in DOMAIN s}

RECURSIVE SeqsUpTo(_, _)
(* All sequences over S of length 0..n. *)
SeqsUpTo(S, n) ==
    IF n = 0 THEN {<<>>}
    ELSE LET shorter == SeqsUpTo(S, n - 1)
         IN shorter \cup {Append(s, x) : s \in {t \in shorter : Len(t) = n - 1}, x \in S}

----------------------------------------------------------------------------
(* The context: node allocation and the diagnostics sink.                   *)

(* The id the next map_ast call returns. *)
NextId(cx) == Len(cx.nodes) + 1

(* cx.map_ast_with_parent(ast, parent): a fresh node id for `ast`, its rib   *)
(* set to `parent`.  The new id is NextId of the context before the call.    *)
map_ast_with_parent(cx, ast, parent) ==
    [cx EXCEPT !.nodes = Append(@, [ast |-> ast, parent |-> parent])]

(* cx.emit(diag) *)
emit(cx, d) == [cx EXCEPT !.diags = Append(@, d)]

(* warn!(..) and error!(..): a line of the log. *)
log(cx, level, msg) == [cx EXCEPT !.logs = Append(@, [level |-> level, msg |-> msg])]

(* DiagBuilder2::error / ::warning with its spans; `subj` is the name or     *)
(* text the message is formatted with.                                       *)
Diag(sev, msg, subj, spans) == [sev |-> sev, msg |-> msg, subj |-> subj, spans |-> spans]

(* The AstNode variants, as registered in the node table. *)
AstExpr(e) == [node |-> "Expr", ast |-> e]
AstStmt(s) == [node |-> "Stmt", ast |-> s]
AstType(t) == [node |-> "Type", ast |-> t]
AstEventExpr(e) == [node |-> "EventExpr", ast |-> e]

----------------------------------------------------------------------------
(* Bounds of the inputs.                                                     *)

(* Longest digit string of a based integer literal or of either part of a   *)
(* time literal.                                                             *)
MaxDigits == 2
(* Most nodes (Edge, Iff, Or) of an event-expression tree. *)
MaxEventNodes == 5
(* Most fields of a pattern expression. *)
MaxFields == 3
(* Most arms of a case statement. *)
MaxCaseItems == 3
(* Most items of a module body. *)
MaxItems == 3
(* Most arguments of a call. *)
MaxArgs == 2
(* Most items of a module body drawn from every kind of item. *)
MaxBlockItems == 2
(* Most statements of a sequential block. *)
MaxStmts == 3
(* Most entries of a port list drawn from every shape of entry. *)
MaxPorts == 2
(* Most genvars of the initialisation of a generate-for. *)
MaxGenvars == 2
(* Most hir_of requests served in one compilation unit. *)
MaxRequests == 2

----------------------------------------------------------------------------
(* Expressions: leaves.                                                      *)

(* An identifier expression at source position `span`. *)
IdentAt(span) == [span |-> span, data |-> [k |-> "IdentExpr", name |-> "x"]]

(* A type without dimensions at source position `span`. *)
TypeAt(span, data) == [span |-> span, data |-> data, sign |-> "None", dims |-> <<>>]

----------------------------------------------------------------------------
(* Based integer literals (lower_expr, Lit::BasedInteger).                   *)

DecChars == {"0", "1", "2", "3", "4", "5", "6", "7", "8", "9"}
SpecialChars == {"x", "X", "z", "Z", "?"}

(* char::to_digit(radix 36) on the characters the inputs use. *)
DigitVal(c) ==
    CASE c = "0" -> 0 [] c = "1" -> 1 [] c = "2" -> 2 [] c = "3" -> 3
      [] c = "4" -> 4 [] c = "5" -> 5 [] c = "6" -> 6 [] c = "7" -> 7
      [] c = "8" -> 8 [] c = "9" -> 9
      [] c = "a" -> 10 [] c = "b" -> 11 [] c = "c" -> 12
      [] c = "d" -> 13 [] c = "e" -> 14 [] c = "f" -> 15
      [] c = "x" -> 33 [] c = "X" -> 33 [] c = "z" -> 35 [] c = "Z" -> 35
      [] OTHER -> 99

(* Variant: the digit string parsed as it is written. *)
SubstituteSpecialNever(value_str) == value_str

(* The closure of line 1073: x, X, z, Z and ? become 0 before parsing. *)
SubstituteSpecial(value_str) ==
    [i \in DOMAIN value_str |->
        IF value_str[i] \in SpecialChars THEN "0" ELSE value_str[i]]

(* The radix of a base letter; None for any other letter. *)
Radix(base) ==
    CASE base = "h" -> Some(16)
      [] base = "d" -> Some(10)
      [] base = "o" -> Some(8)
      [] base = "b" -> Some(2)
      [] OTHER -> None

RECURSIVE Horner(_, _, _)
(* The value of a digit string, most significant digit first. *)
Horner(digits, radix, acc) ==
    IF digits = <<>> THEN acc
    ELSE Horner(Tail(digits), radix, acc * radix + DigitVal(Head(digits)))

(* BigInt::parse_bytes: None on an empty string or a digit outside the radix. *)
ParseBytes(digits, radix) ==
    IF digits = <<>> \/ \E i \in DOMAIN digits : DigitVal(digits[i]) >= radix
    THEN None
    ELSE Some(Horner(digits, radix, 0))

RECURSIVE Bits(_)
(* BigInt::bits: the fewest bits that hold the magnitude; 0 for 0. *)
Bits(n) == IF n = 0 THEN 0 ELSE 1 + Bits(n \div 2)

(* usize::MAX = 18446744073709551615, as its decimal digits. *)
UsizeMaxDigits ==
    <<"1", "8", "4", "4", "6", "7", "4", "4", "0", "7",
      "3", "7", "0", "9", "5", "5", "1", "6", "1", "5">>

RECURSIVE StripZeros(_)
StripZeros(s) == IF s # <<>> /\ Head(s) = "0" THEN StripZeros(Tail(s)) ELSE s

RECURSIVE DigitsLeq(_, _)
(* s <= t for digit strings of equal length. *)
DigitsLeq(s, t) ==
    IF s = <<>> THEN TRUE
    ELSE IF DigitVal(Head(s)) # DigitVal(Head(t))
         THEN DigitVal(Head(s)) < DigitVal(Head(t))
         ELSE DigitsLeq(Tail(s), Tail(t))

(* str::parse::<usize>: Err on an empty string, on a character that is no    *)
(* decimal digit, and on a value above usize::MAX.                           *)
ParseUsize(s) ==
    LET t == StripZeros(s)
    IN IF s = <<>> \/ \E i \in DOMAIN s : s[i] \notin DecChars THEN Err
       ELSE IF Len(t) > Len(UsizeMaxDigits) THEN Err
       ELSE IF Len(t) = Len(UsizeMaxDigits) /\ ~DigitsLeq(t, UsizeMaxDigits) THEN Err
       ELSE Ok(Horner(t, 10, 0))

(* Variant: The comparison of line 1121 with >= in place of >. *)
TooLargeGeq(size_needed, size) == size_needed >= size

(* Line 1121: the literal does not fit the size. *)
TooLarge(size_needed, size) == size_needed > size

(* Variant: A digit standing for four mask bits in every base. *)
BitsPerDigitAllFour(base) == 4

(* Lines 1131-1136: how many mask bits one digit stands for. *)
BitsPerDigit(base) ==
    CASE base = "h" -> 4
      [] base = "o" -> 3
      [] base = "b" -> 1
      [] OTHER -> 0

RECURSIVE Repeat(_, _)
(* std::iter::repeat(c).take(n) *)
Repeat(c, n) == IF n = 0 THEN <<>> ELSE <<c>> \o Repeat(c, n - 1)

RECURSIVE BitIter(_, _)
(* bit_iter: every character of the digit string, BitsPerDigit times. *)
BitIter(value_str, base) ==
    IF value_str = <<>> THEN <<>>
    ELSE Repeat(Head(value_str), BitsPerDigit(base)) \o BitIter(Tail(value_str), base)

(* Lines 1140-1143 and 1147-1150: the two mask predicates. *)
IsSpecialBit(c) == c \in {"x", "X", "z", "Z", "?"}
IsXBit(c) == c \in {"x", "X"}

SpecialBits(value_str, base) ==
    LET it == BitIter(value_str, base) IN [i \in DOMAIN it |-> IsSpecialBit(it[i])]

XBits(value_str, base) ==
    LET it == BitIter(value_str, base) IN [i \in DOMAIN it |-> IsXBit(it[i])]

(* The value stored in the IntConst node (line 1156). *)
StoredValue(parsed, size) == parsed

(* lower_expr on a LiteralExpr(Lit::BasedInteger(maybe_size, signed, base,   *)
(* value)): the context after the call and the ExprKind or the failure.      *)
lower_based_integer(cx, expr) ==
    LET d == expr.data
        radix == Radix(d.base)
    IN IF IsNone(radix)
       THEN [cx |-> emit(cx, Diag("error", "is not a valid integer base", d.base,
                                   <<expr.span>>)),
             res |-> Err]
       ELSE
       LET parsed == ParseBytes(SubstituteSpecial(d.value), radix[1])
       IN IF IsNone(parsed)
          THEN [cx |-> emit(cx, Diag("error", "is not a valid integer literal", d.value,
                                      <<expr.span>>)),
                res |-> Err]
          ELSE
          LET size_needed == Bits(parsed[1])
              size == IF IsSome(d.size) THEN ParseUsize(d.size[1]) ELSE Ok(size_needed)
          IN IF ~size.ok
             THEN [cx |-> emit(cx, Diag("error", "is not a valid integer size", d.size[1],
                                         <<expr.span>>)),
                   res |-> Err]
             ELSE
             [cx |-> IF TooLarge(size_needed, size.val)
                     THEN emit(cx, Diag("warning", "is too large", d.value, <<expr.span>>))
                     ELSE cx,
              res |-> Ok([k |-> "IntConst",
                          width |-> size.val,
                          value |-> StoredValue(parsed[1], size.val),
                          signed |-> d.signed,
                          special_bits |-> SpecialBits(d.value, d.base),
                          x_bits |-> XBits(d.value, d.base)])]

----------------------------------------------------------------------------
(* Pattern expressions (lower_expr, ast::PatternExpr).                       *)

(* cx.unimp_msg(msg, node): a fatal "not implemented" diagnostic citing the  *)
(* node's span.                                                              *)
unimp_msg(cx, msg, span) ==
    [cx |-> emit(cx, Diag("bug", "not implemented", msg, <<span>>)), res |-> Err]

RECURSIVE map_exprs(_, _, _)
(* exprs.iter().map(|expr| cx.map_ast_with_parent(AstNode::Expr(expr), parent)):  *)
(* the context after the calls; the ids are MappedIds(cx, exprs).                  *)
map_exprs(cx, exprs, parent) ==
    IF exprs = <<>> THEN cx
    ELSE map_exprs(map_ast_with_parent(cx, AstExpr(Head(exprs)), parent),
                   Tail(exprs), parent)

MappedIds(cx, exprs) == [i \in 1..Len(exprs) |-> Len(cx.nodes) + i]

(* Variant: The positional loop dropping a non-positional field without a *)
(* diagnostic. *)
positional_field_silent(acc, field, node_id, deciding_span) ==
    IF field.data.k = "Expr"
    THEN [cx |-> map_ast_with_parent(acc.cx, AstExpr(field.data.expr), node_id),
          mapping |-> Append(acc.mapping, NextId(acc.cx))]
    ELSE acc

(* Lines 1347-1366: one turn of the loop over the fields of a positional     *)
(* pattern.  acc = [cx, mapping].                                            *)
positional_field(acc, field, node_id, deciding_span) ==
    IF field.data.k = "Expr"
    THEN [cx |-> map_ast_with_parent(acc.cx, AstExpr(field.data.expr), node_id),
          mapping |-> Append(acc.mapping, NextId(acc.cx))]
    ELSE [cx |-> emit(acc.cx, Diag("error", "not a positional pattern", field.span,
                                   <<field.span, deciding_span>>)),
          mapping |-> acc.mapping]

RECURSIVE positional_fields(_, _, _, _)
positional_fields(acc, fields, node_id, deciding_span) ==
    IF fields = <<>> THEN acc
    ELSE positional_fields(positional_field(acc, Head(fields), node_id, deciding_span),
                           Tail(fields), node_id, deciding_span)

(* Lines 1394-1426: one turn of the loop over the fields of a named pattern. *)
named_field(acc, field, node_id, deciding_span) ==
    CASE field.data.k = "Type" ->
           [cx |-> map_ast_with_parent(
                       map_ast_with_parent(acc.cx, AstType(field.data.ty), node_id),
                       AstExpr(field.data.expr), node_id),
            mapping |-> Append(acc.mapping,
                               <<[k |-> "Type", id |-> NextId(acc.cx)],
                                 NextId(acc.cx) + 1>>)]
      [] field.data.k = "Member" ->
           [cx |-> map_ast_with_parent(
                       map_ast_with_parent(acc.cx, AstExpr(field.data.member), node_id),
                       AstExpr(field.data.expr), node_id),
            mapping |-> Append(acc.mapping,
                               <<[k |-> "Member", id |-> NextId(acc.cx)],
                                 NextId(acc.cx) + 1>>)]
      [] field.data.k = "Default" ->
           [cx |-> map_ast_with_parent(acc.cx, AstExpr(field.data.expr), node_id),
            mapping |-> Append(acc.mapping,
                               <<[k |-> "Default", id |-> 0], NextId(acc.cx)>>)]
      [] OTHER ->
           [cx |-> emit(acc.cx, Diag("error", "not a named pattern", field.span,
                                     <<field.span, deciding_span>>)),
            mapping |-> acc.mapping]

RECURSIVE named_fields(_, _, _, _)
named_fields(acc, fields, node_id, deciding_span) ==
    IF fields = <<>> THEN acc
    ELSE named_fields(named_field(acc, Head(fields), node_id, deciding_span),
                      Tail(fields), node_id, deciding_span)

(* Variant: The repeat pattern reporting the fields from the third on *)
(* only. *)
FieldsAfterRepeatFromThird(fields) == SubSeq(fields, 3, Len(fields))

(* Lines 1371-1380: the fields a repeat pattern reports, fields[1..].        *)
FieldsAfterRepeat(fields) == Tail(fields)

RECURSIVE after_repeat(_, _)
after_repeat(cx, rest) ==
    IF rest = <<>> THEN cx
    ELSE after_repeat(emit(cx, Diag("error", "after repeat pattern", Head(rest).span,
                                    <<Head(rest).span>>)),
                      Tail(rest))

(* lower_expr on an ast::PatternExpr(fields). *)
lower_pattern_expr(cx, node_id, expr) ==
    LET fields == expr.data.fields
    IN IF fields = <<>> THEN [cx |-> cx, res |-> Ok([k |-> "EmptyPattern"])]
       ELSE
       LET deciding_span == fields[1].span
           first == fields[1].data
       IN CASE first.k = "Expr" ->
                 LET r == positional_fields([cx |-> cx, mapping |-> <<>>], fields,
                                            node_id, deciding_span)
                 IN [cx |-> r.cx,
                     res |-> Ok([k |-> "PositionalPattern", mapping |-> r.mapping])]
            [] first.k = "Repeat" ->
                 LET cx1 == after_repeat(cx, FieldsAfterRepeat(fields))
                     cx2 == map_ast_with_parent(cx1, AstExpr(first.count), node_id)
                 IN [cx |-> map_exprs(cx2, first.exprs, node_id),
                     res |-> Ok([k |-> "RepeatPattern",
                                 count |-> NextId(cx1),
                                 exprs |-> MappedIds(cx2, first.exprs)])]
            [] OTHER ->
                 LET r == named_fields([cx |-> cx, mapping |-> <<>>], fields,
                                       node_id, deciding_span)
                 IN [cx |-> r.cx,
                     res |-> Ok([k |-> "NamedPattern", mapping |-> r.mapping])]

----------------------------------------------------------------------------
(* Calls (lower_expr, ast::CallExpr).                                        *)

(* Variant: the slice pattern matching on the first argument alone. *)
one_argument_first(args) == Len(args) >= 1 /\ IsSome(args[1].expr)

(* Lines 1292-1295: the slice pattern [CallArg { expr: Some(arg), .. }]. *)
one_argument(args) == Len(args) = 1 /\ IsSome(args[1].expr)

(* Lines 1290-1304: the closure map_unary; res is the id of the argument. *)
map_unary(cx, node_id, expr, ident) ==
    IF one_argument(expr.data.args)
    THEN [cx |-> map_ast_with_parent(cx, AstExpr(expr.data.args[1].expr[1]), node_id),
          res |-> Ok(NextId(cx))]
    ELSE [cx |-> emit(cx, Diag("error", "takes one argument", ident.name,
                               <<expr.span>>)),
          res |-> Err]

(* Lines 1305-1320: the BuiltinCall of a system call. *)
lower_sys_call(cx, node_id, expr, ident) ==
    LET Unary(tag) ==
            LET r == map_unary(cx, node_id, expr, ident)
            IN IF r.res.ok
               THEN [cx |-> r.cx,
                     res |-> Ok([k |-> "Builtin",
                                 call |-> [k |-> tag, arg |-> r.res.val]])]
               ELSE r
    IN CASE ident.name = "clog2" -> Unary("Clog2")
         [] ident.name = "bits" -> Unary("Bits")
         [] ident.name = "signed" -> Unary("Signed")
         [] ident.name = "unsigned" -> Unary("Unsigned")
         [] OTHER ->
              [cx |-> emit(cx, Diag("warning", "not supported; ignored", ident.name,
                                    <<expr.span>>)),
               res |-> Ok([k |-> "Builtin", call |-> [k |-> "Unsupported"]])]

(* Lines 1288-1326: the ExprKind of an ast::CallExpr. *)
lower_call_expr(cx, node_id, expr) ==
    IF expr.data.callee.data.k = "SysIdentExpr"
    THEN lower_sys_call(cx, node_id, expr, expr.data.callee.data)
    ELSE unimp_msg(log(cx, "error", "callee"), "lowering of call to",
                   expr.data.callee.span)

----------------------------------------------------------------------------
(* Time literals (lower_expr, Lit::Time; parse_fixed_point_number).          *)
(*                                                                           *)
(* A num::BigRational whose denominator divides a power of ten is kept as    *)
(* [mant, e2, e5]: the rational mant * 2^e2 * 5^e5 with mant prime to ten,   *)
(* or mant = e2 = e5 = 0 for zero.  The representation is exact and one      *)
(* rational has one representation, as the reduced fraction of a Ratio.      *)

RECURSIVE Multiplicity(_, _)
(* How often the prime p divides n # 0. *)
Multiplicity(n, p) ==
    IF n # 0 /\ n % p = 0 THEN 1 + Multiplicity(n \div p, p) ELSE 0

RECURSIVE StripFactor(_, _)
(* n without its factors p. *)
StripFactor(n, p) ==
    IF n # 0 /\ n % p = 0 THEN StripFactor(n \div p, p) ELSE n

(* Line 1504, (a, b).into(): Ratio::new(a, b), the reduced fraction a / b,   *)
(* for b a product of twos and fives.                                        *)
RatioNew(a, b) ==
    IF a = 0 THEN [mant |-> 0, e2 |-> 0, e5 |-> 0]
    ELSE [mant |-> StripFactor(StripFactor(a, 2), 5),
          e2 |-> Multiplicity(a, 2) - Multiplicity(b, 2),
          e5 |-> Multiplicity(a, 5) - Multiplicity(b, 5)]

(* Line 1175: value / BigInt::from(1000), exact. *)
RatioDiv1000(v) ==
    IF v.mant = 0 THEN v ELSE [v EXCEPT !.e2 = @ - 3, !.e5 = @ - 3]

(* str::parse::<BigInt>() on the strings the inputs hold: the value of a     *)
(* nonempty string of decimal digits, an error otherwise.                    *)
ParseBigInt(digits) == ParseBytes(digits, 10)

(* Variant: one zero of the denominator per digit of the whole number. *)
denom_digits_all(int, s) == <<"1">> \o [i \in 1..(Len(int) + Len(s)) |-> "0"]

(* Lines 1497 and 1501: "1", then one '0' per character of the fraction. *)
denom_digits(int, s) == <<"1">> \o [i \in 1..Len(s) |-> "0"]

(* parse_fixed_point_number *)
parse_fixed_point_number(cx, span, int, frac) ==
    LET num == IF IsSome(frac) THEN int \o frac[1] ELSE int
        denom == IF IsSome(frac) THEN denom_digits(int, frac[1]) ELSE <<"1">>
        a == ParseBigInt(num)
        b == ParseBigInt(denom)
    IN IF IsSome(a) /\ IsSome(b)
       THEN [cx |-> cx, res |-> Ok(RatioNew(a[1], b[1]))]
       ELSE [cx |-> emit(cx, Diag("error", "is not a number literal", <<int, frac>>,
                                  <<span>>)),
             res |-> Err]

(* Lines 1166-1173: the number of divisions by 1000 of a time unit. *)
magnitude(unit) ==
    CASE unit = "Second" -> 0
      [] unit = "MilliSecond" -> 1
      [] unit = "MicroSecond" -> 2
      [] unit = "NanoSecond" -> 3
      [] unit = "PicoSecond" -> 4
      [] unit = "FemtoSecond" -> 5

RECURSIVE div_1000_times(_, _)
(* Lines 1174-1176: for _ in 0..magnitude { value = value / 1000 }. *)
div_1000_times(value, n) ==
    IF n = 0 THEN value ELSE div_1000_times(RatioDiv1000(value), n - 1)

(* Lines 1163-1178: the ExprKind of a Lit::Time. *)
lower_time_literal(cx, expr) ==
    LET r == parse_fixed_point_number(cx, expr.span, expr.data.int, expr.data.frac)
    IN IF ~r.res.ok THEN r
       ELSE [cx |-> r.cx,
             res |-> Ok([k |-> "TimeConst",
                         value |-> div_1000_times(r.res.val,
                                                  magnitude(expr.data.unit))])]

(* lower_expr: the ExprKind of each expression, wrapped into hir::Expr. *)
lower_expr(cx, node_id, expr) ==
    LET Expr(r) ==
            IF r.res.ok
            THEN [cx |-> r.cx,
                  res |-> Ok([hir |-> "Expr", id |-> node_id, span |-> expr.span,
                              kind |-> r.res.val])]
            ELSE r
    IN Expr(CASE expr.data.k = "BasedInteger" -> lower_based_integer(cx, expr)
               [] expr.data.k = "IdentExpr" ->
                    [cx |-> cx, res |-> Ok([k |-> "Ident", name |-> expr.data.name])]
               [] expr.data.k = "PatternExpr" -> lower_pattern_expr(cx, node_id, expr)
               [] expr.data.k = "CallExpr" -> lower_call_expr(cx, node_id, expr)
               [] expr.data.k = "Time" -> lower_time_literal(cx, expr)
               [] OTHER -> unimp_msg(log(cx, "error", "expr"), "lowering of", expr.span))

----------------------------------------------------------------------------
(* Allocation of declarations (alloc_var_decl, alloc_net_decl,               *)
(* alloc_struct_member).                                                     *)

RECURSIVE alloc_decl_names(_, _, _, _, _)
(* Lines 1619-1623 and 1636-1640: one node per declared name, each the rib   *)
(* of the next.                                                              *)
alloc_decl_names(acc, node, decl, type_id, names) ==
    IF names = <<>> THEN acc
    ELSE alloc_decl_names(
             [cx |-> map_ast_with_parent(
                         acc.cx,
                         [node |-> node, name |-> Head(names), decl |-> decl,
                          ty |-> type_id],
                         acc.next_rib),
              next_rib |-> NextId(acc.cx),
              into |-> Append(acc.into, NextId(acc.cx))],
             node, decl, type_id, Tail(names))

(* alloc_var_decl: the type node, then the names. *)
alloc_var_decl(cx, decl, next_rib, into) ==
    alloc_decl_names([cx |-> map_ast_with_parent(cx, AstType(decl.ty), next_rib),
                      next_rib |-> NextId(cx), into |-> into],
                     "VarDecl", decl, NextId(cx), decl.names)

(* alloc_net_decl: the type node, then the names. *)
alloc_net_decl(cx, decl, next_rib, into) ==
    alloc_decl_names([cx |-> map_ast_with_parent(cx, AstType(decl.ty), next_rib),
                      next_rib |-> NextId(cx), into |-> into],
                     "NetDecl", decl, NextId(cx), decl.names)

RECURSIVE alloc_chain(_, _, _)
(* A run of map_ast_with_parent calls, each node the rib of the next:        *)
(* acc = [cx, next_rib, into].                                               *)
alloc_chain(acc, asts, k) ==
    IF k > Len(asts) THEN acc
    ELSE alloc_chain([cx |-> map_ast_with_parent(acc.cx, asts[k], acc.next_rib),
                      next_rib |-> NextId(acc.cx),
                      into |-> Append(acc.into, NextId(acc.cx))],
                     asts, k + 1)

(* alloc_struct_member: the type node, then the names. *)
alloc_struct_member(cx, member, next_rib, into) ==
    alloc_decl_names([cx |-> map_ast_with_parent(cx, AstType(member.ty), next_rib),
                      next_rib |-> NextId(cx), into |-> into],
                     "StructMember", member, NextId(cx), member.names)

----------------------------------------------------------------------------
(* Statements (hir_of, AstNode::Stmt).                                       *)

(* Variant: The case loop letting a later default arm replace the earlier *)
(* one. *)
case_item_last_default(acc, item, node_id) ==
    IF item.k = "Default"
    THEN [acc EXCEPT !.cx = IF IsNone(acc.default)
                            THEN map_ast_with_parent(acc.cx, AstStmt(item.stmt), node_id)
                            ELSE map_ast_with_parent(
                                     emit(acc.cx, Diag("error", "multiple default cases",
                                                       None, <<item.stmt.span>>)),
                                     AstStmt(item.stmt), node_id),
                     !.default = Some(Len(acc.cx.nodes) + 1)]
    ELSE LET cx1 == map_exprs(acc.cx, item.exprs, node_id)
         IN [acc EXCEPT !.cx = map_ast_with_parent(cx1, AstStmt(item.stmt), node_id),
                        !.ways = Append(@, <<MappedIds(acc.cx, item.exprs), NextId(cx1)>>)]

(* Lines 314-335: one turn of the loop over the arms of a case statement.    *)
(* acc = [cx, ways, default].                                                *)
case_item(acc, item, node_id) ==
    IF item.k = "Default"
    THEN IF IsNone(acc.default)
         THEN [acc EXCEPT !.cx = map_ast_with_parent(@, AstStmt(item.stmt), node_id),
                          !.default = Some(NextId(acc.cx))]
         ELSE [acc EXCEPT !.cx = emit(@, Diag("error", "multiple default cases", None,
                                              <<item.stmt.span>>))]
    ELSE LET cx1 == map_exprs(acc.cx, item.exprs, node_id)
         IN [acc EXCEPT !.cx = map_ast_with_parent(cx1, AstStmt(item.stmt), node_id),
                        !.ways = Append(@, <<MappedIds(acc.cx, item.exprs), NextId(cx1)>>)]

RECURSIVE case_items(_, _, _)
case_items(acc, items, node_id) ==
    IF items = <<>> THEN acc
    ELSE case_items(case_item(acc, Head(items), node_id), Tail(items), node_id)

(* The StmtKind of an ast::CaseStmt in normal mode. *)
lower_case_stmt(cx, node_id, stmt) ==
    LET cx1 == map_ast_with_parent(cx, AstExpr(stmt.data.expr), node_id)
        r == case_items([cx |-> cx1, ways |-> <<>>, default |-> None],
                        stmt.data.items, node_id)
    IN [cx |-> r.cx,
        res |-> Ok([k |-> "Case", expr |-> NextId(cx), ways |-> r.ways,
                    default |-> r.default, kind |-> stmt.data.kind])]

(* Variant: every statement of a block a child of the block itself. *)
block_rib_fixed(node_id, prev_id) == node_id

(* Line 200: next_rib = id, the statement just allocated is the rib of the   *)
(* next one.                                                                 *)
block_rib(node_id, prev_id) == prev_id

RECURSIVE block_stmts(_, _, _)
(* Lines 196-203: the closure over the statements of a sequential block.     *)
(* acc = [cx, next_rib, into].                                               *)
block_stmts(acc, node_id, stmts) ==
    IF stmts = <<>> THEN acc
    ELSE block_stmts([cx |-> map_ast_with_parent(acc.cx, AstStmt(Head(stmts)),
                                                 acc.next_rib),
                      next_rib |-> block_rib(node_id, NextId(acc.cx)),
                      into |-> Append(acc.into, NextId(acc.cx))],
                     node_id, Tail(stmts))

(* Lines 193-205: the StmtKind of an ast::SequentialBlock. *)
lower_sequential_block(cx, node_id, stmts) ==
    LET r == block_stmts([cx |-> cx, next_rib |-> node_id, into |-> <<>>],
                         node_id, stmts)
    IN [cx |-> r.cx, res |-> Ok([k |-> "Block", stmts |-> r.into])]

(* Variant: the condition, step and body of a for statement as children of  *)
(* the statement.                                                            *)
for_rib_outer(node_id, init) == node_id

(* Lines 275-279: the parent of the condition, the step and the body of a    *)
(* for statement is its initialiser.                                         *)
for_rib(node_id, init) == init

(* Lines 273-281: the StmtKind of an ast::ForStmt. *)
lower_for_stmt(cx, node_id, stmt) ==
    LET init == NextId(cx)
        cx1 == map_ast_with_parent(cx, AstStmt(stmt.data.init), node_id)
        cx2 == map_ast_with_parent(cx1, AstExpr(stmt.data.cond), for_rib(node_id, init))
        cx3 == map_ast_with_parent(cx2, AstExpr(stmt.data.step), for_rib(node_id, init))
    IN [cx |-> map_ast_with_parent(cx3, AstStmt(stmt.data.body), for_rib(node_id, init)),
        res |-> Ok([k |-> "Loop",
                    kind |-> [k |-> "For", init |-> init, cond |-> NextId(cx1),
                              step |-> NextId(cx2)],
                    body |-> NextId(cx3)])]

(* Lines 282-287: the StmtKind of an ast::VarDeclStmt; a statement without a *)
(* recorded parent panics in Option::unwrap.                                 *)
lower_var_decl_stmt(cx, node_id, stmt) ==
    LET parent == cx.nodes[node_id].parent
        r == alloc_var_decl(cx, stmt.data.decl, parent, <<>>)
    IN IF parent = 0 THEN [cx |-> cx, res |-> Panic]
       ELSE [cx |-> r.cx,
             res |-> Ok([k |-> "InlineGroup", stmts |-> r.into, rib |-> r.next_rib])]

(* hir_of on an AstNode::Stmt. *)
lower_stmt(cx, node_id, stmt) ==
    LET Stmt(r) ==
            IF r.res.ok
            THEN [cx |-> r.cx,
                  res |-> Ok([hir |-> "Stmt", id |-> node_id, label |-> stmt.label,
                              span |-> stmt.span, kind |-> r.res.val])]
            ELSE r
    IN Stmt(CASE stmt.data.k = "NullStmt" -> [cx |-> cx, res |-> Ok([k |-> "Null"])]
               [] stmt.data.k = "CaseStmt" /\ stmt.data.mode = "Normal" ->
                    lower_case_stmt(cx, node_id, stmt)
               [] stmt.data.k = "SequentialBlock" ->
                    lower_sequential_block(cx, node_id, stmt.data.stmts)
               [] stmt.data.k = "BlockingAssignStmt" ->
                    [cx |-> map_ast_with_parent(
                                map_ast_with_parent(cx, AstExpr(stmt.data.lhs), node_id),
                                AstExpr(stmt.data.rhs), node_id),
                     res |-> Ok([k |-> "Assign", lhs |-> NextId(cx),
                                 rhs |-> NextId(cx) + 1, kind |-> "Block"])]
               [] stmt.data.k = "ExprStmt" ->
                    [cx |-> map_ast_with_parent(cx, AstExpr(stmt.data.expr), node_id),
                     res |-> Ok([k |-> "Expr", expr |-> NextId(cx)])]
               [] stmt.data.k = "ForStmt" -> lower_for_stmt(cx, node_id, stmt)
               [] stmt.data.k = "VarDeclStmt" -> lower_var_decl_stmt(cx, node_id, stmt)
               [] OTHER -> unimp_msg(log(cx, "error", "stmt"), "lowering of", stmt.span))

----------------------------------------------------------------------------
(* Event expressions.                                                        *)

(* Variant: The condition stack left as it is on return from the guarded *)
(* sub-expression. *)
cond_stack_kept(cond_stack) == cond_stack

(* Line 1541: cond_stack.pop() on return from the guarded sub-expression.    *)
cond_stack_pop(cond_stack) == SubSeq(cond_stack, 1, Len(cond_stack) - 1)

RECURSIVE lower_event_expr(_, _, _, _, _)
(* lower_event_expr: the context, the events collected in `into` and the     *)
(* condition stack after the call.  No path of the function fails.           *)
lower_event_expr(cx, expr, parent_id, into, cond_stack) ==
    CASE expr.k = "Edge" ->
           [cx |-> map_ast_with_parent(cx, AstExpr(expr.value), parent_id),
            into |-> Append(into, [span |-> expr.span, edge |-> expr.edge,
                                   expr |-> NextId(cx), iff |-> cond_stack]),
            cond_stack |-> cond_stack]
      [] expr.k = "Iff" ->
           LET r == lower_event_expr(
                        map_ast_with_parent(cx, AstExpr(expr.cond), parent_id),
                        expr.expr, parent_id, into, Append(cond_stack, NextId(cx)))
           IN [r EXCEPT !.cond_stack = cond_stack_pop(@)]
      [] expr.k = "Or" ->
           LET l == lower_event_expr(cx, expr.lhs, parent_id, into, cond_stack)
           IN lower_event_expr(l.cx, expr.rhs, parent_id, l.into, l.cond_stack)

(* hir_of on an AstNode::EventExpr. *)
lower_event_expr_node(cx, node_id, expr) ==
    LET r == lower_event_expr(cx, expr, node_id, <<>>, <<>>)
    IN [cx |-> r.cx,
        res |-> Ok([hir |-> "EventExpr", id |-> node_id, span |-> expr.span,
                    events |-> r.into])]

----------------------------------------------------------------------------
(* Types (lower_type): the kind of the type's data, then its packed          *)
(* dimensions.                                                               *)

RECURSIVE lower_type_dims(_, _, _, _)
(* Lines 1010-1031: the loop over ty.dims.iter().rev(); `dims` is what is    *)
(* left of the reversed list.  r = [cx, res] with res the TypeKind so far.   *)
lower_type_dims(r, node_id, dims, span) ==
    IF dims = <<>> THEN r
    ELSE LET dim == Head(dims)
         IN IF dim.k = "Range"
            THEN lower_type_dims(
                     [cx |-> map_ast_with_parent(
                                 map_ast_with_parent(r.cx, AstExpr(dim.lhs), node_id),
                                 AstExpr(dim.rhs), node_id),
                      res |-> Ok([k |-> "PackedArray", inner |-> r.res.val,
                                  lhs |-> NextId(r.cx), rhs |-> NextId(r.cx) + 1])],
                     node_id, Tail(dims), span)
            ELSE [cx |-> emit(r.cx, Diag("error", "is not a valid packed dimension",
                                         dim.k, <<span>>)),
                  res |-> Err]

Reverse(s) == [i \in 1..Len(s) |-> s[Len(s) + 1 - i]]

RECURSIVE struct_members(_, _)
(* Lines 974-976: the loop over the members of a struct type.                *)
(* acc = [cx, next_rib, into].                                               *)
struct_members(acc, members) ==
    IF members = <<>> THEN acc
    ELSE struct_members(alloc_struct_member(acc.cx, Head(members), acc.next_rib,
                                            acc.into),
                        Tail(members))

RECURSIVE enum_variants(_, _, _, _)
(* Lines 998-1002: one EnumVariant node per name, each the rib of the next.  *)
(* acc = [cx, next_rib, into].                                               *)
enum_variants(acc, node_id, names, index) ==
    IF index >= Len(names) THEN acc
    ELSE enum_variants(
             [cx |-> map_ast_with_parent(
                         acc.cx,
                         [node |-> "EnumVariant", var |-> names[index + 1],
                          decl |-> node_id, index |-> index],
                         acc.next_rib),
              next_rib |-> NextId(acc.cx),
              into |-> Append(acc.into, <<names[index + 1].name, NextId(acc.cx)>>)],
             node_id, names, index + 1)

(* Lines 958-1009: the TypeKind of the type's data. *)
lower_type_kind(cx, node_id, ty) ==
    LET Builtin(b) == [cx |-> cx, res |-> Ok([k |-> "Builtin", ty |-> b])]
    IN CASE ty.data.k = "ImplicitType" -> [cx |-> cx, res |-> Ok([k |-> "Implicit"])]
         [] ty.data.k = "VoidType" -> Builtin("Void")
         [] ty.data.k = "BitType" -> Builtin("Bit")
         [] ty.data.k = "RegType" -> Builtin("Logic")
         [] ty.data.k = "LogicType" -> Builtin("Logic")
         [] ty.data.k = "ByteType" -> Builtin("Byte")
         [] ty.data.k = "ShortIntType" -> Builtin("ShortInt")
         [] ty.data.k = "IntType" -> Builtin("Int")
         [] ty.data.k = "IntegerType" -> Builtin("Integer")
         [] ty.data.k = "LongIntType" -> Builtin("LongInt")
         [] ty.data.k = "StringType" -> Builtin("String")
         [] ty.data.k = "TimeType" -> Builtin("Time")
         [] ty.data.k = "NamedType" ->
              [cx |-> cx, res |-> Ok([k |-> "Named", name |-> ty.data.name])]
         [] ty.data.k = "StructType" ->
              LET r == struct_members([cx |-> cx, next_rib |-> node_id, into |-> <<>>],
                                      ty.data.members)
              IN [cx |-> r.cx, res |-> Ok([k |-> "Struct", fields |-> r.into])]
         [] ty.data.k = "ScopedType" /\ ~ty.data.member ->
              [cx |-> map_ast_with_parent(cx, AstType(ty.data.ty), node_id),
               res |-> Ok([k |-> "Scope", ty |-> NextId(cx), name |-> ty.data.name])]
         [] ty.data.k = "EnumType" ->
              LET cx1 == IF IsSome(ty.data.repr)
                         THEN map_ast_with_parent(cx, AstType(ty.data.repr[1]), node_id)
                         ELSE cx
                  r == enum_variants([cx |-> cx1,
                                      next_rib |-> IF IsSome(ty.data.repr)
                                                   THEN NextId(cx) ELSE node_id,
                                      into |-> <<>>],
                                     node_id, ty.data.names, 0)
              IN [cx |-> r.cx,
                  res |-> Ok([k |-> "Enum", variants |-> r.into,
                              ty |-> IF IsSome(ty.data.repr) THEN Some(NextId(cx))
                                     ELSE None])]
         [] OTHER -> unimp_msg(log(cx, "error", "ty"), "lowering of", ty.span)

(* lower_type: the kind of the data, wrapped in the packed dimensions from   *)
(* the innermost outwards.                                                   *)
lower_type(cx, node_id, ty) ==
    LET Type(r) ==
            IF r.res.ok
            THEN [cx |-> r.cx,
                  res |-> Ok([hir |-> "Type", id |-> node_id, span |-> ty.span,
                              kind |-> r.res.val])]
            ELSE r
        Dims(k) ==
            IF ~k.res.ok THEN k
            ELSE Type(lower_type_dims([cx |-> k.cx, res |-> Ok(k.res.val)], node_id,
                                      Reverse(ty.dims), ty.span))
    IN Dims(lower_type_kind(cx, node_id, ty))

----------------------------------------------------------------------------
(* Module ports: the non-ANSI reconciliation (lower_module_ports_nonansi).   *)

(* HashMap::insert and HashMap::get_mut on the map `decls`, a function from  *)
(* port names to partial port records.                                       *)
MapInsert(m, key, val) == [n \in DOMAIN m \cup {key} |-> IF n = key THEN val ELSE m[n]]

(* Lines 601-613: the PartialNonAnsiPort of one name of a port declaration. *)
PartialNonAnsiPort(ast, name) ==
    [span |-> name.name_span,
     name |-> name.name,
     kind |-> ast.kind,
     dir |-> ast.dir,
     ty |-> ast.ty.data,
     sign |-> ast.ty.sign,
     packed_dims |-> ast.ty.dims,
     unpacked_dims |-> name.dims,
     default |-> name.init,
     var_decl |-> None,
     net_decl |-> None]

(* Lines 600-626: one name of a port declaration in the first scan.          *)
(* acc = [cx, decls, decl_order, failed].                                    *)
first_scan_name(acc, ast, name) ==
    LET data == PartialNonAnsiPort(ast, name)
    IN IF data.name \in DOMAIN acc.decls
       THEN [acc EXCEPT
                !.decls = MapInsert(@, data.name, data),
                !.cx = emit(@, Diag("error", "port declared multiple times", name.name,
                                    <<name.name_span, acc.decls[data.name].span>>)),
                !.failed = TRUE]
       ELSE [acc EXCEPT
                !.decls = MapInsert(@, data.name, data),
                !.decl_order = Append(@, name.name)]

RECURSIVE first_scan_names(_, _, _)
first_scan_names(acc, ast, names) ==
    IF names = <<>> THEN acc
    ELSE first_scan_names(first_scan_name(acc, ast, Head(names)), ast, Tail(names))

RECURSIVE first_scan(_, _)
(* Lines 594-627: the loop over the items that collects the port declarations. *)
first_scan(acc, items) ==
    IF items = <<>> THEN acc
    ELSE first_scan(IF Head(items).k = "PortDecl"
                    THEN first_scan_names(acc, Head(items), Head(items).names)
                    ELSE acc,
                    Tail(items))

(* Lines 634-651 and 654-671: one name of a variable (field = "var_decl") or *)
(* net (field = "net_decl") declaration in the second scan.                  *)
second_scan_name(acc, field, decl, name) ==
    IF name.name \notin DOMAIN acc.decls THEN acc
    ELSE LET prev == acc.decls[name.name][field]
             replaced == [acc EXCEPT !.decls[name.name][field] = Some(<<decl, name>>)]
         IN IF IsSome(prev)
            THEN [replaced EXCEPT
                     !.cx = emit(@, Diag("error",
                                         IF field = "var_decl"
                                         THEN "port variable declared multiple times"
                                         ELSE "port net declared multiple times",
                                         name.name,
                                         <<name.name_span, prev[1][2].name_span>>)),
                     !.failed = TRUE]
            ELSE replaced

RECURSIVE second_scan_names(_, _, _, _)
second_scan_names(acc, field, decl, names) ==
    IF names = <<>> THEN acc
    ELSE second_scan_names(second_scan_name(acc, field, decl, Head(names)),
                           field, decl, Tail(names))

RECURSIVE second_scan(_, _)
(* Lines 631-675: the loop over the items that collects the variable and net *)
(* declarations of the port names.                                           *)
second_scan(acc, items) ==
    IF items = <<>> THEN acc
    ELSE second_scan(
             CASE Head(items).k = "VarDecl" ->
                    second_scan_names(acc, "var_decl", Head(items), Head(items).names)
               [] Head(items).k = "NetDecl" ->
                    second_scan_names(acc, "net_decl", Head(items), Head(items).names)
               [] OTHER -> acc,
             Tail(items))

(* Variant: the completeness test looking at the type alone. *)
port_is_complete_type_only(port) == port.ty # [k |-> "ImplicitType"]

(* Variant: The completeness test looking at the kind alone. *)
port_is_complete_kind_only(port) == IsSome(port.kind)

(* Line 685: the port already has a net or variable type. *)
port_is_complete(port) == IsSome(port.kind) \/ port.ty # [k |-> "ImplicitType"]

RECURSIVE emit_complete(_, _, _)
(* Lines 686-707: one "port is complete" error per span of the chain of the  *)
(* variable and the net fragment.                                            *)
emit_complete(cx, port, spans) ==
    IF spans = <<>> THEN cx
    ELSE emit_complete(emit(cx, Diag("error", "port is complete", port.name,
                                     <<Head(spans), port.span>>)),
                       port, Tail(spans))

(* Variant: The sign merge letting an explicit fragment sign overwrite the *)
(* port sign silently. *)
merge_sign_overwrite(p, f) ==
    IF f = "None" THEN [sign |-> p, contradict |-> FALSE]
    ELSE [sign |-> f, contradict |-> FALSE]

(* Lines 788-799: the merge of the port's sign p with the fragment's sign f: *)
(* the sign the record ends with, and whether the signs contradict.          *)
merge_sign(p, f) ==
    CASE p = f -> [sign |-> p, contradict |-> FALSE]
      [] f = "None" -> [sign |-> p, contradict |-> FALSE]
      [] p = "None" -> [sign |-> f, contradict |-> FALSE]
      [] OTHER -> [sign |-> p, contradict |-> TRUE]

(* Lines 714-785, the arms (Some(vd), None) and (None, Some(nd)): the kind   *)
(* the single fragment gives the port.                                       *)
fragment_kind(port) ==
    IF IsSome(port.var_decl)
    THEN Some([k |-> "Var"])
    ELSE Some([k |-> "Net", net_type |-> port.net_decl[1][1].net_type])

(* Variant: the variable arm taken whenever a variable fragment exists, *)
(* whether or not a net fragment does too. *)
var_fragment_any(port) == IsSome(port.var_decl)

(* Line 717, the pattern (Some(vd), None): a variable fragment and no net    *)
(* fragment.                                                                 *)
var_fragment_only(port) == IsSome(port.var_decl) /\ IsNone(port.net_decl)

(* Lines 680-803: the merge of one port name.  acc as in the scans. *)
merge_port(acc, name) ==
    LET port0 == acc.decls[name]
        complete == port_is_complete(port0)
        spans == (IF IsSome(port0.var_decl) THEN <<port0.var_decl[1][2].span>> ELSE <<>>)
                 \o (IF IsSome(port0.net_decl) THEN <<port0.net_decl[1][2].span>> ELSE <<>>)
        cx1 == IF complete THEN emit_complete(acc.cx, port0, spans) ELSE acc.cx
        failed1 == acc.failed \/ (complete /\ spans # <<>>)
        port == IF complete
                THEN [port0 EXCEPT !.var_decl = None, !.net_decl = None]
                ELSE port0
    IN CASE var_fragment_only(port) ->
              LET vd == port.var_decl[1]
                  redeclared == IsSome(port.kind) /\ port.kind # Some([k |-> "Var"])
                  cx2 == IF redeclared
                         THEN emit(cx1, Diag("error", "net port redeclared as variable",
                                             port.name, <<vd[2].span, port.span>>))
                         ELSE cx1
                  m == merge_sign(port.sign, vd[1].ty.sign)
              IN [acc EXCEPT
                     !.cx = IF m.contradict
                            THEN emit(cx2, Diag("error", "port has contradicting signs",
                                                port.name, <<port.span, vd[2].name_span>>))
                            ELSE cx2,
                     !.failed = failed1 \/ redeclared,
                     !.decls[name] = [port EXCEPT !.kind = fragment_kind(port),
                                                  !.sign = m.sign]]
         [] IsNone(port.var_decl) /\ IsSome(port.net_decl) ->
              LET nd == port.net_decl[1]
                  redeclared == IsSome(port.kind) /\ port.kind = Some([k |-> "Var"])
                  cx2 == IF redeclared
                         THEN emit(cx1, Diag("error", "variable port redeclared as net",
                                             port.name, <<nd[2].span, port.span>>))
                         ELSE cx1
                  m == merge_sign(port.sign, nd[1].ty.sign)
              IN [acc EXCEPT
                     !.cx = IF m.contradict
                            THEN emit(cx2, Diag("error", "port has contradicting signs",
                                                port.name, <<port.span, nd[2].name_span>>))
                            ELSE cx2,
                     !.failed = failed1 \/ redeclared,
                     !.decls[name] = [port EXCEPT !.kind = fragment_kind(port),
                                                  !.sign = m.sign]]
         [] IsSome(port.var_decl) /\ IsSome(port.net_decl) ->
              [acc EXCEPT
                  !.cx = emit(cx1, Diag("error", "port doubly declared as variable and net",
                                        port.name,
                                        <<port.var_decl[1][2].span, port.net_decl[1][2].span,
                                          port.span>>)),
                  !.failed = TRUE,
                  !.decls[name] = port]
         [] OTHER ->
              [acc EXCEPT !.cx = cx1, !.failed = failed1, !.decls[name] = port]

RECURSIVE merge_ports(_, _)
(* Lines 679-804: the loop over decl_order. *)
merge_ports(acc, order) ==
    IF order = <<>> THEN acc
    ELSE merge_ports(merge_port(acc, Head(order)), Tail(order))

(* The two scans of the module body, from an empty map. *)
scan_ports(cx, ast_items) ==
    second_scan(first_scan([cx |-> cx, decls |-> <<>>, decl_order |-> <<>>,
                            failed |-> FALSE],
                           ast_items),
                ast_items)

(* Variant: the reconciliation failing when it has reported an error. *)
reconciled_unless_failed(failed) == IF failed THEN Err ELSE Ok(<<>>)

(* Line 811: Ok(()), whatever the flag `failed` of line 587 holds. *)
reconciled(failed) == Ok(<<>>)

(* lower_module_ports_nonansi: always Ok(()); the flag `failed` is dropped.  *)
(* The records of `decls` at the return are kept in cx.ports.  Its first     *)
(* step is the trace! of line 591.                                           *)
lower_module_ports_nonansi(cx, ast_ports, ast_items, first_span) ==
    LET Done(merged) ==
            [cx |-> [merged.cx EXCEPT !.ports = merged.decls],
             res |-> reconciled(merged.failed)]
        Merge(scanned) == Done(merge_ports(scanned, scanned.decl_order))
    IN Merge(scan_ports(log(cx, "trace", "Gathering ports inside module body"),
                        ast_items))

(* Variant: the ANSI routine reconciling the port list with the body too. *)
lower_module_ports_ansi_merging(cx, ast_ports, ast_items, first_span) ==
    lower_module_ports_nonansi(cx, ast_ports, ast_items, first_span)

(* lower_module_ports_ansi: lines 829-837, nothing but Ok(()). *)
lower_module_ports_ansi(cx, ast_ports, ast_items, first_span) ==
    [cx |-> cx, res |-> Ok(<<>>)]

(* Lines 542-563: whether the first port entry makes the list non-ANSI. *)
first_is_nonansi(first) ==
    CASE first.k = "Explicit" /\ IsNone(first.dir) -> TRUE
      [] first.k = "Named" /\ IsNone(first.dir) /\ IsNone(first.kind)
            /\ first.dims = <<>> /\ IsNone(first.expr)
            /\ first.ty.data = [k |-> "ImplicitType"]
            /\ first.ty.sign = "None" /\ first.ty.dims = <<>> -> TRUE
      [] first.k = "Implicit" -> TRUE
      [] OTHER -> FALSE

(* Variant: a port list non-ANSI as soon as one of its entries is. *)
uses_nonansi_any(ast_ports) == \E i \in DOMAIN ast_ports : first_is_nonansi(ast_ports[i])

(* Lines 538-565: the style of a non-empty port list, read off its first     *)
(* entry.                                                                    *)
uses_nonansi(ast_ports) == first_is_nonansi(ast_ports[1])

(* lower_module_ports: nothing for an empty port list; else the style is     *)
(* logged (debug!, line 566) and the routine of that style runs.             *)
lower_module_ports(cx, ast_ports, ast_items) ==
    IF ast_ports = <<>> THEN [cx |-> cx, res |-> Ok(<<>>)]
    ELSE IF uses_nonansi(ast_ports)
         THEN lower_module_ports_nonansi(log(cx, "debug", "Module uses non-ANSI style"),
                                         ast_ports, ast_items, ast_ports[1].span)
         ELSE lower_module_ports_ansi(log(cx, "debug", "Module uses ANSI style"),
                                      ast_ports, ast_items, ast_ports[1].span)

----------------------------------------------------------------------------
(* Modules (lower_module, lower_module_block, lower_port).                   *)

(* cx.unimp(node): as unimp_msg, without a message of its own. *)
unimp(cx, span) == unimp_msg(cx, "", span)

(* alloc_param_decl: one TypeParam or ValueParam node per declared name,     *)
(* each the rib of the next.  acc = [cx, next_rib, into].                    *)
RECURSIVE alloc_param_names(_, _, _)
alloc_param_names(acc, param, decls) ==
    IF decls = <<>> THEN acc
    ELSE alloc_param_names(
             [cx |-> map_ast_with_parent(
                         acc.cx,
                         [node |-> IF param.kind.k = "Type" THEN "TypeParam"
                                   ELSE "ValueParam",
                          param |-> param, decl |-> Head(decls)],
                         acc.next_rib),
              next_rib |-> NextId(acc.cx),
              into |-> Append(acc.into, NextId(acc.cx))],
             param, Tail(decls))

alloc_param_decl(cx, param, next_rib, into) ==
    alloc_param_names([cx |-> cx, next_rib |-> next_rib, into |-> into],
                      param, param.kind.decls)

(* Variant: a typedef leaving the cursor of the block where it was. *)
typedef_rib_kept(next_rib, id) == next_rib

(* Line 894: next_rib = id after a typedef, though no collection holds it. *)
typedef_rib(next_rib, id) == id

EmptyBlock ==
    [insts |-> <<>>, decls |-> <<>>, procs |-> <<>>, gens |-> <<>>, params |-> <<>>,
     assigns |-> <<>>]

(* Lines 852-912: one item of a module block.  b = [cx, next_rib, block]. *)
module_block_item(b, item) ==
    CASE item.k = "Inst" ->
           LET cx1 == map_ast_with_parent(b.cx, [node |-> "InstTarget", ast |-> item],
                                          b.next_rib)
               r == alloc_chain([cx |-> cx1, next_rib |-> NextId(b.cx),
                                 into |-> b.block.insts],
                                [i \in DOMAIN item.names |->
                                    [node |-> "Inst", ast |-> item.names[i],
                                     target |-> NextId(b.cx)]],
                                1)
           IN [cx |-> r.cx, next_rib |-> r.next_rib,
               block |-> [b.block EXCEPT !.insts = r.into]]
      [] item.k = "VarDecl" ->
           LET r == alloc_var_decl(b.cx, item, b.next_rib, b.block.decls)
           IN [cx |-> r.cx, next_rib |-> r.next_rib,
               block |-> [b.block EXCEPT !.decls = r.into]]
      [] item.k = "NetDecl" ->
           LET r == alloc_net_decl(b.cx, item, b.next_rib, b.block.decls)
           IN [cx |-> r.cx, next_rib |-> r.next_rib,
               block |-> [b.block EXCEPT !.decls = r.into]]
      [] item.k = "Procedure" ->
           [cx |-> map_ast_with_parent(b.cx, [node |-> "Proc", ast |-> item], b.next_rib),
            next_rib |-> NextId(b.cx),
            block |-> [b.block EXCEPT !.procs = Append(@, NextId(b.cx))]]
      [] item.k = "GenerateIf" ->
           [cx |-> map_ast_with_parent(b.cx, [node |-> "GenIf", ast |-> item], b.next_rib),
            next_rib |-> NextId(b.cx),
            block |-> [b.block EXCEPT !.gens = Append(@, NextId(b.cx))]]
      [] item.k = "GenerateFor" ->
           [cx |-> map_ast_with_parent(b.cx, [node |-> "GenFor", ast |-> item], b.next_rib),
            next_rib |-> NextId(b.cx),
            block |-> [b.block EXCEPT !.gens = Append(@, NextId(b.cx))]]
      [] item.k = "ParamDecl" ->
           LET r == alloc_param_decl(b.cx, item, b.next_rib, b.block.params)
           IN [cx |-> r.cx, next_rib |-> r.next_rib,
               block |-> [b.block EXCEPT !.params = r.into]]
      [] item.k = "Typedef" ->
           [cx |-> map_ast_with_parent(b.cx, [node |-> "Typedef", ast |-> item],
                                       b.next_rib),
            next_rib |-> typedef_rib(b.next_rib, NextId(b.cx)),
            block |-> b.block]
      [] item.k = "ContAssign" ->
           LET r == alloc_chain([cx |-> b.cx, next_rib |-> b.next_rib,
                                 into |-> b.block.assigns],
                                [i \in DOMAIN item.assignments |->
                                    [node |-> "ContAssign", ast |-> item,
                                     lhs |-> item.assignments[i][1],
                                     rhs |-> item.assignments[i][2]]],
                                1)
           IN [cx |-> r.cx, next_rib |-> r.next_rib,
               block |-> [b.block EXCEPT !.assigns = r.into]]
      [] item.k = "ImportDecl" ->
           LET r == alloc_chain([cx |-> b.cx, next_rib |-> b.next_rib, into |-> <<>>],
                                [i \in DOMAIN item.items |->
                                    [node |-> "Import", ast |-> item.items[i]]],
                                1)
           IN [cx |-> r.cx, next_rib |-> r.next_rib, block |-> b.block]
      [] OTHER ->
           [b EXCEPT !.cx = log(@, "warn", "skipping unsupported")]

RECURSIVE module_block_items(_, _)
module_block_items(b, items) ==
    IF items = <<>> THEN b
    ELSE module_block_items(module_block_item(b, Head(items)), Tail(items))

(* lower_module_block: the context after the call and the hir::ModuleBlock; *)
(* no path of the function fails.                                           *)
lower_module_block(cx, parent_rib, items) ==
    LET b == module_block_items([cx |-> cx, next_rib |-> parent_rib,
                                 block |-> EmptyBlock], items)
    IN [cx |-> b.cx, res |-> Ok(b.block)]

RECURSIVE alloc_params(_, _)
(* Lines 488-491: the loop over the module's parameter declarations. *)
alloc_params(acc, params) ==
    IF params = <<>> THEN acc
    ELSE alloc_params(alloc_param_decl(acc.cx, Head(params), acc.next_rib, acc.into),
                      Tail(params))

(* Variant: the cursor advanced before the parent of a port is recorded. *)
port_parent_after(next_rib, id) == id

(* Line 500: cx.set_parent(id, next_rib), before the cursor moves to id. *)
port_parent(next_rib, id) == next_rib

RECURSIVE alloc_ports(_, _)
(* Lines 497-508: one Port node per Named port, each the rib of the next;    *)
(* any other port entry ends lower_module as unimplemented.                  *)
(* acc = [cx, next_rib, into, ok].                                           *)
alloc_ports(acc, ast_ports) ==
    IF ast_ports = <<>> THEN acc
    ELSE IF Head(ast_ports).k = "Named"
         THEN alloc_ports([cx |-> map_ast_with_parent(
                                      acc.cx, [node |-> "Port", ast |-> Head(ast_ports)],
                                      port_parent(acc.next_rib, NextId(acc.cx))),
                           next_rib |-> NextId(acc.cx),
                           into |-> Append(acc.into, NextId(acc.cx)),
                           ok |-> TRUE],
                          Tail(ast_ports))
         ELSE [acc EXCEPT !.cx = unimp(acc.cx, Head(ast_ports).span).cx, !.ok = FALSE]

(* lower_module *)
lower_module(cx, node_id, ast) ==
    LET Module(p, ps, blk) ==
            IF ~blk.res.ok THEN [cx |-> blk.cx, res |-> Err]
            ELSE [cx |-> blk.cx,
                  res |-> Ok([hir |-> "Module", id |-> node_id, name |-> ast.name,
                              span |-> ast.span, ports |-> ps.into,
                              params |-> p.into, block |-> blk.res.val])]
        Items(p, ps) ==
            IF ~ps.ok THEN [cx |-> ps.cx, res |-> Err]
            ELSE Module(p, ps, lower_module_block(ps.cx, ps.next_rib, ast.items))
        Ports(p, mp) ==
            IF ~mp.res.ok THEN [cx |-> mp.cx, res |-> Err]
            ELSE Items(p, alloc_ports([cx |-> mp.cx, next_rib |-> p.next_rib,
                                       into |-> <<>>, ok |-> TRUE], ast.ports))
        Params(p) == Ports(p, lower_module_ports(p.cx, ast.ports, ast.items))
    IN Params(alloc_params([cx |-> cx, next_rib |-> node_id, into |-> <<>>],
                           ast.params))

(* Variant: a package skipping every item it has no rule for. *)
ignored_in_package_any(item) == item.k \notin {"VarDecl", "ParamDecl", "Typedef"}

(* Lines 1688-1691: the one kind of item a package ignores with a warning. *)
ignored_in_package(item) == item.k = "SubroutineDecl"

RECURSIVE package_items(_, _)
(* Lines 1675-1699: the loop over the items of a package; an item that       *)
(* cannot appear in a package ends it.                                       *)
(* acc = [cx, next_rib, names, decls, params, ok].                           *)
package_items(acc, items) ==
    IF items = <<>> THEN acc
    ELSE LET item == Head(items)
             Decls(r) ==
                 package_items([acc EXCEPT !.cx = r.cx, !.next_rib = r.next_rib,
                                           !.decls = r.into], Tail(items))
             Params(r) ==
                 package_items([acc EXCEPT !.cx = r.cx, !.next_rib = r.next_rib,
                                           !.params = r.into], Tail(items))
         IN CASE item.k = "VarDecl" ->
                   Decls(alloc_var_decl(acc.cx, item, acc.next_rib, acc.decls))
              [] item.k = "ParamDecl" ->
                   Params(alloc_param_decl(acc.cx, item, acc.next_rib, acc.params))
              [] item.k = "Typedef" ->
                   package_items(
                       [acc EXCEPT
                           !.cx = map_ast_with_parent(@, [node |-> "Typedef",
                                                          ast |-> item],
                                                      acc.next_rib),
                           !.next_rib = NextId(acc.cx),
                           !.names = Append(@, <<item.name, NextId(acc.cx)>>)],
                       Tail(items))
              [] ignored_in_package(item) ->
                   package_items(
                       [acc EXCEPT !.cx = log(@, "warn",
                                              "ignoring unsupported subroutine")],
                       Tail(items))
              [] OTHER ->
                   [acc EXCEPT !.cx = emit(@, Diag("error", "cannot appear in a package",
                                                   item.k, <<item.span>>)),
                               !.ok = FALSE]

(* lower_package *)
lower_package(cx, node_id, ast) ==
    LET Package(r) ==
            IF ~r.ok THEN [cx |-> r.cx, res |-> Err]
            ELSE [cx |-> r.cx,
                  res |-> Ok([hir |-> "Package", id |-> node_id, name |-> ast.name,
                              span |-> ast.span, names |-> r.names,
                              decls |-> r.decls, params |-> r.params,
                              last_rib |-> r.next_rib])]
    IN Package(package_items([cx |-> cx, next_rib |-> node_id, names |-> <<>>,
                              decls |-> <<>>, params |-> <<>>, ok |-> TRUE],
                             ast.items))

(* Variant: the type and default of a port as children of the port. *)
port_scope_self(cx, node_id) == IF cx.nodes[node_id].parent = 0 THEN 0 ELSE node_id

(* Line 928: cx.parent_node_id(node_id), the scope of the type and of the    *)
(* default of a port; 0 when the port has no recorded parent.                *)
port_scope(cx, node_id) == cx.nodes[node_id].parent

(* lower_port: a port without a recorded parent panics in Option::unwrap, a  *)
(* port without a direction in Option::expect, before anything is allocated. *)
lower_port(cx, node_id, ast) ==
    LET parent == port_scope(cx, node_id)
    IN IF parent = 0 THEN [cx |-> cx, res |-> Panic]
       ELSE IF ast.k # "Named" THEN unimp(cx, ast.span)
       ELSE IF IsNone(ast.dir) THEN [cx |-> cx, res |-> Panic]
       ELSE LET cx1 == map_ast_with_parent(cx, AstType(ast.ty), parent)
            IN [cx |-> IF IsSome(ast.expr)
                       THEN map_ast_with_parent(cx1, AstExpr(ast.expr[1]), parent)
                       ELSE cx1,
                res |-> Ok([hir |-> "Port", id |-> node_id, name |-> ast.name,
                            span |-> ast.span, dir |-> ast.dir[1],
                            ty |-> NextId(cx),
                            default |-> IF IsSome(ast.expr) THEN Some(NextId(cx1))
                                        ELSE None])]

(* hir_of on an AstNode::VarDecl or AstNode::NetDecl: both lower to a        *)
(* hir::VarDecl, the initialiser a child of the declaration.                 *)
lower_var_decl(cx, node_id, ast) ==
    [cx |-> IF IsSome(ast.name.init)
            THEN map_ast_with_parent(cx, AstExpr(ast.name.init[1]), node_id)
            ELSE cx,
     res |-> Ok([hir |-> "VarDecl", id |-> node_id, name |-> ast.name.name,
                 span |-> <<ast.name.span, ast.decl.span>>, ty |-> ast.ty,
                 init |-> IF IsSome(ast.name.init) THEN Some(NextId(cx)) ELSE None])]

(* An optional child: Option::map(|x| cx.map_ast_with_parent(x, parent)).    *)
(* The context after the call; the id, if any, is NextId of the one before.  *)
map_opt(cx, opt, parent) ==
    IF IsSome(opt) THEN map_ast_with_parent(cx, opt[1], parent) ELSE cx

OptId(cx, opt) == IF IsSome(opt) THEN Some(NextId(cx)) ELSE None

(* Lines 127-139: hir_of on an AstNode::TypeParam. *)
lower_type_param(cx, node_id, ast) ==
    LET default == IF IsSome(ast.decl.ty) THEN Some(AstType(ast.decl.ty[1])) ELSE None
    IN [cx |-> map_opt(cx, default, node_id),
        res |-> Ok([hir |-> "TypeParam", id |-> node_id, name |-> ast.decl.name,
                    span |-> <<ast.param.span, ast.decl.span>>,
                    local |-> ast.param.local, default |-> OptId(cx, default)])]

(* Lines 140-153: hir_of on an AstNode::ValueParam. *)
lower_value_param(cx, node_id, ast) ==
    LET cx1 == map_ast_with_parent(cx, AstType(ast.decl.ty), node_id)
        default == IF IsSome(ast.decl.expr) THEN Some(AstExpr(ast.decl.expr[1]))
                   ELSE None
    IN [cx |-> map_opt(cx1, default, node_id),
        res |-> Ok([hir |-> "ValueParam", id |-> node_id, name |-> ast.decl.name,
                    span |-> <<ast.param.span, ast.decl.span>>,
                    local |-> ast.param.local, ty |-> NextId(cx),
                    default |-> OptId(cx1, default)])]

(* Lines 181-189: hir_of on an AstNode::Proc. *)
lower_proc(cx, node_id, prok) ==
    [cx |-> map_ast_with_parent(cx, AstStmt(prok.stmt), node_id),
     res |-> Ok([hir |-> "Proc", id |-> node_id, span |-> prok.span,
                 kind |-> prok.kind, stmt |-> NextId(cx)])]

(* Variant: the else body lowered from the rib the main body ended at. *)
else_rib_chained(node_id, main) == Len(main.cx.nodes)

(* Line 375: the else body is lowered from the generate-if node, as the main *)
(* body is.                                                                  *)
else_rib(node_id, main) == node_id

(* Lines 371-388: hir_of on an AstNode::GenIf. *)
lower_gen_if(cx, node_id, gen) ==
    LET GenIf(main, els) ==
            IF ~main.res.ok THEN [cx |-> main.cx, res |-> Err]
            ELSE IF ~els.res.ok THEN [cx |-> els.cx, res |-> Err]
            ELSE [cx |-> els.cx,
                  res |-> Ok([hir |-> "Gen", id |-> node_id, span |-> gen.span,
                              kind |-> [k |-> "If", cond |-> NextId(cx),
                                        main_body |-> main.res.val,
                                        else_body |-> IF IsSome(gen.else_block)
                                                      THEN Some(els.res.val)
                                                      ELSE None]])]
        Else(main) ==
            GenIf(main,
                IF IsSome(gen.else_block)
                THEN lower_module_block(main.cx, else_rib(node_id, main),
                                        gen.else_block[1].items)
                ELSE [cx |-> main.cx, res |-> Ok(<<>>)])
    IN Else(lower_module_block(map_ast_with_parent(cx, AstExpr(gen.cond), node_id),
                               node_id, gen.main_block.items))

(* alloc_genvar_init: one GenvarDecl node per declaration, each the parent   *)
(* of the next; any other statement is an error.                             *)
alloc_genvar_init(cx, stmt, parent_id) ==
    IF stmt.data.k = "GenvarDeclStmt"
    THEN LET r == alloc_chain([cx |-> cx, next_rib |-> parent_id, into |-> <<>>],
                              [i \in DOMAIN stmt.data.decls |->
                                  [node |-> "GenvarDecl", ast |-> stmt.data.decls[i]]],
                              1)
         IN [cx |-> r.cx, res |-> Ok(r.into)]
    ELSE [cx |-> emit(cx, Diag("error", "is not a valid genvar initialization",
                               stmt.data.k, <<stmt.span>>)),
          res |-> Err]

(* Variant: the first genvar as the rib of condition, step and body. *)
gen_for_rib_first(init) == init[1]

(* Line 391: *init.last(), the rib of condition, step and body. *)
gen_for_rib(init) == init[Len(init)]

(* Lines 389-406: hir_of on an AstNode::GenFor; an empty list of genvar      *)
(* declarations panics in Option::unwrap.                                    *)
lower_gen_for(cx, node_id, gen) ==
    LET GenFor(init, body) ==
            IF ~body.res.ok THEN [cx |-> body.cx, res |-> Err]
            ELSE [cx |-> body.cx,
                  res |-> Ok([hir |-> "Gen", id |-> node_id, span |-> gen.span,
                              kind |-> [k |-> "For", init |-> init.res.val,
                                        cond |-> NextId(init.cx),
                                        step |-> NextId(init.cx) + 1,
                                        body |-> body.res.val]])]
        Body(init, rib) ==
            GenFor(init,
                lower_module_block(
                    map_ast_with_parent(
                        map_ast_with_parent(init.cx, AstExpr(gen.cond), rib),
                        AstExpr(gen.step), rib),
                    rib, gen.block.items))
        WithInit(init) ==
            IF ~init.res.ok THEN init
            ELSE IF init.res.val = <<>> THEN [cx |-> init.cx, res |-> Panic]
            ELSE Body(init, gen_for_rib(init.res.val))
    IN WithInit(alloc_genvar_init(cx, gen.init, node_id))

(* Lines 407-418: hir_of on an AstNode::GenvarDecl. *)
lower_genvar_decl(cx, node_id, decl) ==
    LET init == IF IsSome(decl.init) THEN Some(AstExpr(decl.init[1])) ELSE None
    IN [cx |-> map_opt(cx, init, node_id),
        res |-> Ok([hir |-> "GenvarDecl", id |-> node_id, span |-> decl.span,
                    name |-> decl.name, init |-> OptId(cx, init)])]

(* Lines 419-430: hir_of on an AstNode::Typedef: the type is a child of the  *)
(* typedef's parent; a typedef without a recorded parent panics.             *)
lower_typedef(cx, node_id, def) ==
    LET parent == cx.nodes[node_id].parent
    IN IF parent = 0 THEN [cx |-> cx, res |-> Panic]
       ELSE [cx |-> map_ast_with_parent(cx, AstType(def.ty), parent),
             res |-> Ok([hir |-> "Typedef", id |-> node_id, span |-> def.span,
                         name |-> def.name, ty |-> NextId(cx)])]

(* Lines 431-439: hir_of on an AstNode::ContAssign. *)
lower_cont_assign(cx, node_id, ast) ==
    [cx |-> map_ast_with_parent(map_ast_with_parent(cx, AstExpr(ast.lhs), node_id),
                                AstExpr(ast.rhs), node_id),
     res |-> Ok([hir |-> "Assign", id |-> node_id,
                 span |-> <<ast.lhs.span, ast.rhs.span>>,
                 lhs |-> NextId(cx), rhs |-> NextId(cx) + 1])]

(* Lines 440-452: hir_of on an AstNode::StructMember: the initialiser is a   *)
(* child of the member's type.                                               *)
lower_struct_member(cx, node_id, ast) ==
    LET init == IF IsSome(ast.name.init) THEN Some(AstExpr(ast.name.init[1])) ELSE None
    IN [cx |-> map_opt(cx, init, ast.ty),
        res |-> Ok([hir |-> "VarDecl", id |-> node_id, name |-> ast.name.name,
                    span |-> <<ast.name.span, ast.decl.span>>, ty |-> ast.ty,
                    init |-> OptId(cx, init)])]

(* Lines 454-467: hir_of on an AstNode::EnumVariant: the value is a child of *)
(* the enum type.                                                            *)
lower_enum_variant(cx, node_id, ast) ==
    LET value == IF IsSome(ast.var.value) THEN Some(AstExpr(ast.var.value[1])) ELSE None
    IN [cx |-> map_opt(cx, value, ast.decl),
        res |-> Ok([hir |-> "EnumVariant", id |-> node_id, name |-> ast.var.name,
                    span |-> ast.var.name_span, enum_id |-> ast.decl,
                    index |-> ast.index, value |-> OptId(cx, value)])]

RECURSIVE inst_target_params(_, _, _)
(* Lines 44-65: one turn per parameter assignment of an instantiation        *)
(* target.  acc = [cx, named_params, pos_params, is_pos].                    *)
inst_target_params(acc, node_id, params) ==
    IF params = <<>> THEN acc
    ELSE LET param == Head(params)
             value_id == NextId(acc.cx)
             cx1 == map_ast_with_parent(acc.cx,
                                        [node |-> "TypeOrExpr", ast |-> param.expr],
                                        node_id)
         IN inst_target_params(
                IF IsSome(param.name)
                THEN [acc EXCEPT !.cx = cx1, !.is_pos = FALSE,
                                 !.named_params =
                                     Append(@, <<param.span, param.name[1], Some(value_id)>>)]
                ELSE [acc EXCEPT
                         !.cx = IF ~acc.is_pos
                                THEN emit(cx1, Diag("warning",
                                                    "positional parameters must appear before named",
                                                    Len(acc.pos_params) + 1, <<param.span>>))
                                ELSE cx1,
                         !.pos_params = Append(@, <<param.span, Some(value_id)>>)],
                node_id, Tail(params))

(* Lines 40-75: hir_of on an AstNode::InstTarget. *)
lower_inst_target(cx, node_id, ast) ==
    LET r == inst_target_params([cx |-> cx, named_params |-> <<>>, pos_params |-> <<>>,
                                 is_pos |-> TRUE],
                                node_id, ast.params)
    IN [cx |-> r.cx,
        res |-> Ok([hir |-> "InstTarget", id |-> node_id, name |-> ast.target,
                    span |-> ast.span, pos_params |-> r.pos_params,
                    named_params |-> r.named_params])]

RECURSIVE inst_conns(_, _, _)
(* Lines 81-113: one turn per port connection of an instance; a named        *)
(* connection is unconnected or connected to an expression.                  *)
(* acc = [cx, named_ports, pos_ports, has_wildcard_port, is_pos].            *)
inst_conns(acc, node_id, conns) ==
    IF conns = <<>> THEN acc
    ELSE LET port == Head(conns)
         IN inst_conns(
                CASE port.kind.k = "Auto" -> [acc EXCEPT !.has_wildcard_port = TRUE]
                  [] port.kind.k = "Named" /\ port.kind.mode.k = "Unconnected" ->
                       [acc EXCEPT !.is_pos = FALSE,
                                   !.named_ports =
                                       Append(@, <<port.span, port.kind.name, None>>)]
                  [] port.kind.k = "Named" /\ port.kind.mode.k = "Connected" ->
                       [acc EXCEPT
                           !.cx = map_ast_with_parent(@, AstExpr(port.kind.mode.expr),
                                                      node_id),
                           !.is_pos = FALSE,
                           !.named_ports = Append(@, <<port.span, port.kind.name,
                                                       Some(NextId(acc.cx))>>)]
                  [] port.kind.k = "Positional" ->
                       LET cx1 == IF ~acc.is_pos
                                  THEN emit(acc.cx,
                                            Diag("warning",
                                                 "positional port must appear before named",
                                                 Len(acc.pos_ports) + 1, <<port.span>>))
                                  ELSE acc.cx
                       IN [acc EXCEPT
                              !.cx = map_ast_with_parent(cx1, AstExpr(port.kind.expr),
                                                         node_id),
                              !.pos_ports = Append(@, <<port.span, Some(NextId(cx1))>>)],
                node_id, Tail(conns))

(* Lines 76-126: hir_of on an AstNode::Inst. *)
lower_inst(cx, node_id, ast) ==
    LET r == inst_conns([cx |-> cx, named_ports |-> <<>>, pos_ports |-> <<>>,
                         has_wildcard_port |-> FALSE, is_pos |-> TRUE],
                        node_id, ast.ast.conns)
    IN [cx |-> r.cx,
        res |-> Ok([hir |-> "Inst", id |-> node_id, name |-> ast.ast.name,
                    span |-> ast.ast.span, target |-> ast.target,
                    named_ports |-> r.named_ports, pos_ports |-> r.pos_ports,
                    has_wildcard_port |-> r.has_wildcard_port])]

----------------------------------------------------------------------------
(* The dispatcher.                                                           *)

(* hir_of(cx, node_id): the context after lowering node `node_id` and the    *)
(* HIR node or the failure.                                                  *)
hir_of(cx, node_id) ==
    LET ast == cx.nodes[node_id].ast
    IN CASE ast.node = "Expr" -> lower_expr(cx, node_id, ast.ast)
         [] ast.node = "Type" -> lower_type(cx, node_id, ast.ast)
         [] ast.node = "Stmt" -> lower_stmt(cx, node_id, ast.ast)
         [] ast.node = "EventExpr" -> lower_event_expr_node(cx, node_id, ast.ast)
         [] ast.node = "Module" -> lower_module(cx, node_id, ast.ast)
         [] ast.node = "Package" -> lower_package(cx, node_id, ast.ast)
         [] ast.node = "Port" -> lower_port(cx, node_id, ast.ast)
         [] ast.node = "VarDecl" -> lower_var_decl(cx, node_id, ast)
         [] ast.node = "NetDecl" -> lower_var_decl(cx, node_id, ast)
         [] ast.node = "TypeParam" -> lower_type_param(cx, node_id, ast)
         [] ast.node = "ValueParam" -> lower_value_param(cx, node_id, ast)
         [] ast.node = "Proc" -> lower_proc(cx, node_id, ast.ast)
         [] ast.node = "GenIf" -> lower_gen_if(cx, node_id, ast.ast)
         [] ast.node = "GenFor" -> lower_gen_for(cx, node_id, ast.ast)
         [] ast.node = "GenvarDecl" -> lower_genvar_decl(cx, node_id, ast.ast)
         [] ast.node = "Typedef" -> lower_typedef(cx, node_id, ast.ast)
         [] ast.node = "ContAssign" -> lower_cont_assign(cx, node_id, ast)
         [] ast.node = "StructMember" -> lower_struct_member(cx, node_id, ast)
         [] ast.node = "EnumVariant" -> lower_enum_variant(cx, node_id, ast)
         [] ast.node = "Import" -> [cx |-> cx, res |-> Panic]
         [] ast.node = "InstTarget" -> lower_inst_target(cx, node_id, ast.ast)
         [] ast.node = "Inst" -> lower_inst(cx, node_id, ast)
         [] ast.node = "TypeOrExpr" /\ ast.ast.k = "Type" ->
              lower_type(cx, node_id, ast.ast.ty)
         [] ast.node = "TypeOrExpr" /\ ast.ast.k = "Expr" ->
              lower_expr(cx, node_id, ast.ast.expr)
         [] OTHER -> unimp_msg(log(cx, "error", "ast"), "lowering of", <<>>)

(* The number of requests served so far. *)
Requests == Cardinality({i \in DOMAIN hirs : hirs[i] # NoHir})

(* Variant: a context without a cache, every request lowering anew. *)
never_memoized(id) == FALSE

(* The query cache of the context: a request for a node that has been        *)
(* lowered, successfully or not, is answered from the cache.                 *)
memoized(id) == hirs[id] # NoHir

(* A request for the HIR of a node: answered with hirs[id] from the cache,   *)
(* or by hir_of, whose result enters the cache.                              *)
HirOf(id) ==
    /\ \A i \in DOMAIN hirs : hirs[i] # Panic
    /\ IF memoized(id)
       THEN UNCHANGED vars
       ELSE /\ Requests < MaxRequests
            /\ LET Served(r) ==
                       /\ nodes' = r.cx.nodes
                       /\ diags' = r.cx.diags
                       /\ ports' = r.cx.ports
                       /\ logs' = r.cx.logs
                       /\ hirs' = [i \in 1..Len(r.cx.nodes) |->
                                      IF i = id THEN r.res
                                      ELSE IF i <= Len(nodes) THEN hirs[i] ELSE NoHir]
               IN Served(hir_of([nodes |-> nodes, diags |-> diags, ports |-> ports,
                                 logs |-> logs], id))

Next == \E id \in DOMAIN nodes : HirOf(id)

(* A compilation unit holding the one root node `root`, nothing lowered. *)
InitWith(Roots) ==
    /\ \E root \in Roots : nodes = <<[ast |-> root, parent |-> 0]>>
    /\ diags = <<>>
    /\ hirs = <<NoHir>>
    /\ ports = <<>>
    /\ logs = <<>>

----------------------------------------------------------------------------
(* Inputs.                                                                   *)

LitChars == {"0", "1", "7", "9", "f", "x", "X", "z", "Z", "?"}
LitBases == {"h", "d", "o", "b", "s"}
LitSizes ==
    {None, Some(<<"0">>), Some(<<"1">>), Some(<<"3">>), Some(<<"4">>), Some(<<"8">>),
     Some(<<"1", "2">>),
     Some(<<"9", "9", "9", "9", "9", "9", "9", "9", "9", "9",
            "9", "9", "9", "9", "9", "9", "9", "9", "9", "9">>)}

BasedIntegerExprs ==
    {[span |-> <<>>,
      data |-> [k |-> "BasedInteger", size |-> sz, signed |-> sg, base |-> b, value |-> v]] :
        sz \in LitSizes, sg \in BOOLEAN, b \in LitBases,
        v \in SeqsUpTo(LitChars, MaxDigits) \ {<<>>}}

FieldKinds == {"Expr", "Repeat1", "Repeat2", "Type", "Member", "Default"}

(* The field of kind `kind` at position i of a pattern. *)
PatternField(i, kind) ==
    [span |-> <<i>>,
     data |-> CASE kind = "Expr" -> [k |-> "Expr", expr |-> IdentAt(<<i, 1>>)]
                [] kind = "Repeat1" ->
                     [k |-> "Repeat", count |-> IdentAt(<<i, 1>>),
                      exprs |-> <<IdentAt(<<i, 2>>)>>]
                [] kind = "Repeat2" ->
                     [k |-> "Repeat", count |-> IdentAt(<<i, 1>>),
                      exprs |-> <<IdentAt(<<i, 2>>), IdentAt(<<i, 3>>)>>]
                [] kind = "Type" ->
                     [k |-> "Type", ty |-> TypeAt(<<i, 1>>, [k |-> "LogicType"]),
                      expr |-> IdentAt(<<i, 2>>)]
                [] kind = "Member" ->
                     [k |-> "Member", member |-> IdentAt(<<i, 1>>),
                      expr |-> IdentAt(<<i, 2>>)]
                [] kind = "Default" -> [k |-> "Default", expr |-> IdentAt(<<i, 2>>)]]

PatternExprs ==
    {[span |-> <<>>,
      data |-> [k |-> "PatternExpr",
                fields |-> [i \in DOMAIN kinds |-> PatternField(i, kinds[i])]]] :
        kinds \in SeqsUpTo(FieldKinds, MaxFields)}

NullStmtAt(span) == [span |-> span, label |-> None, data |-> [k |-> "NullStmt"]]

CaseItemKinds == {"Default", "Expr1", "Expr2"}

(* The arm of kind `kind` at position i of a case statement. *)
CaseItem(i, kind) ==
    CASE kind = "Default" -> [k |-> "Default", stmt |-> NullStmtAt(<<i, 0>>)]
      [] kind = "Expr1" ->
           [k |-> "Expr", exprs |-> <<IdentAt(<<i, 1>>)>>, stmt |-> NullStmtAt(<<i, 0>>)]
      [] kind = "Expr2" ->
           [k |-> "Expr", exprs |-> <<IdentAt(<<i, 1>>), IdentAt(<<i, 2>>)>>,
            stmt |-> NullStmtAt(<<i, 0>>)]

CaseStmts ==
    {[span |-> <<>>, label |-> None,
      data |-> [k |-> "CaseStmt", expr |-> IdentAt(<<0>>), mode |-> "Normal",
                kind |-> "Normal",
                items |-> [i \in DOMAIN kinds |-> CaseItem(i, kinds[i])]]] :
        kinds \in SeqsUpTo(CaseItemKinds, MaxCaseItems)}

EdgeKinds == {"posedge", "negedge"}

RECURSIVE EventTrees(_, _)
(* The event-expression trees of exactly n nodes rooted at position `path`;  *)
(* the span of a node is its path from the root.                             *)
EventTrees(n, path) ==
    IF n = 1
    THEN {[k |-> "Edge", span |-> path, edge |-> e, value |-> IdentAt(Append(path, 0))] :
             e \in EdgeKinds}
    ELSE {[k |-> "Iff", span |-> path, expr |-> t, cond |-> IdentAt(Append(path, 3))] :
             t \in EventTrees(n - 1, Append(path, 1))}
         \cup UNION {
             {[k |-> "Or", span |-> path, lhs |-> l, rhs |-> r] :
                 l \in EventTrees(i, Append(path, 1)),
                 r \in EventTrees(n - 1 - i, Append(path, 2))} : i \in 1..(n - 2)}

EventExprs == UNION {EventTrees(n, <<>>) : n \in 1..MaxEventNodes}

(* The name at position j of the item at position i of a module body. *)
DeclName(i, j, name) ==
    [name |-> name, span |-> <<i, j>>, name_span |-> <<i, j, 1>>, dims |-> <<>>,
     init |-> None]

SignedType(span, data, sign, dims) ==
    [span |-> span, data |-> data, sign |-> sign, dims |-> dims]

Range70(i) ==
    <<[k |-> "Range", lhs |-> IdentAt(<<i, 0, 1>>), rhs |-> IdentAt(<<i, 0, 2>>)]>>

PortDeclItem(i, names, kind, data, sign) ==
    [k |-> "PortDecl", span |-> <<i>>, dir |-> "Input", kind |-> kind,
     ty |-> SignedType(<<i, 0>>, data, sign, <<>>),
     names |-> [j \in DOMAIN names |-> DeclName(i, j, names[j])]]

VarDeclItem(i, names, sign) ==
    [k |-> "VarDecl", span |-> <<i>>,
     ty |-> SignedType(<<i, 0>>, [k |-> "LogicType"], sign, <<>>),
     names |-> [j \in DOMAIN names |-> DeclName(i, j, names[j])]]

NetDeclItem(i, names, sign, dims) ==
    [k |-> "NetDecl", span |-> <<i>>, net_type |-> "wire",
     ty |-> SignedType(<<i, 0>>, [k |-> "ImplicitType"], sign, dims),
     names |-> [j \in DOMAIN names |-> DeclName(i, j, names[j])]]

ItemKinds ==
    {"input a", "input signed a", "input wire a", "input logic a", "input b",
     "logic a", "logic signed a", "logic unsigned a",
     "wire [7:0] a", "wire signed a, b"}

(* The item `kind` at position i of a module body. *)
BodyItem(i, kind) ==
    CASE kind = "input a" ->
           PortDeclItem(i, <<"a">>, None, [k |-> "ImplicitType"], "None")
      [] kind = "input signed a" ->
           PortDeclItem(i, <<"a">>, None, [k |-> "ImplicitType"], "Signed")
      [] kind = "input wire a" ->
           PortDeclItem(i, <<"a">>, Some([k |-> "Net", net_type |-> "wire"]),
                        [k |-> "ImplicitType"], "None")
      [] kind = "input logic a" ->
           PortDeclItem(i, <<"a">>, None, [k |-> "LogicType"], "None")
      [] kind = "input b" ->
           PortDeclItem(i, <<"b">>, None, [k |-> "ImplicitType"], "None")
      [] kind = "input var a" ->
           PortDeclItem(i, <<"a">>, Some([k |-> "Var"]), [k |-> "ImplicitType"], "None")
      [] kind = "logic a" -> VarDeclItem(i, <<"a">>, "None")
      [] kind = "logic signed a" -> VarDeclItem(i, <<"a">>, "Signed")
      [] kind = "logic unsigned a" -> VarDeclItem(i, <<"a">>, "Unsigned")
      [] kind = "wire [7:0] a" -> NetDeclItem(i, <<"a">>, "None", Range70(i))
      [] kind = "wire signed a, b" -> NetDeclItem(i, <<"a", "b">>, "Signed", <<>>)

(* The port list entry `name` with nothing but its name: the non-ANSI style. *)
BarePort(i, name) ==
    [k |-> "Named", span |-> <<0, i>>, name |-> name, dir |-> None, kind |-> None,
     ty |-> TypeAt(<<0, i, 0>>, [k |-> "ImplicitType"]), dims |-> <<>>, expr |-> None]

(* module m(a, b); <items> endmodule *)
NonAnsiModules ==
    {[span |-> <<>>, name |-> "m", params |-> <<>>,
      ports |-> <<BarePort(1, "a"), BarePort(2, "b")>>,
      items |-> [i \in DOMAIN kinds |-> BodyItem(i, kinds[i])]] :
        kinds \in SeqsUpTo(ItemKinds, MaxItems)}

(* A declared name with an initialiser. *)
InitName(i, j, name) ==
    [DeclName(i, j, name) EXCEPT !.init = Some(IdentAt(<<i, j, 2>>))]

UnitItemKinds ==
    {"Inst", "VarDecl", "NetDecl", "Procedure", "GenerateIf", "GenerateFor",
     "ParamDecl", "TypeParamDecl", "Typedef", "ContAssign", "ImportDecl", "ClassDecl"}

(* The item of kind `kind` at position i of a module body:                   *)
(*   sub #(x) u1(x), u2();      logic v = x, w;       wire n;                *)
(*   always ;                   if (x) logic v = x, w; else ;                *)
(*   for (genvar g = x; x; x) ; parameter P = x, Q;   parameter type T = logic; *)
(*   typedef logic t;           assign x = x, x = x;  import p::x, q::*;     *)
(*   class c; endclass                                                       *)
UnitItem(i, kind) ==
    CASE kind = "Inst" ->
           [k |-> "Inst", span |-> <<i>>, target |-> "sub",
            params |-> <<[span |-> <<i, 0>>, name |-> None,
                          expr |-> [k |-> "Expr", expr |-> IdentAt(<<i, 0, 1>>)]]>>,
            names |-> <<[name |-> "u1", span |-> <<i, 1>>,
                         conns |-> <<[span |-> <<i, 1, 1>>,
                                      kind |-> [k |-> "Positional",
                                                expr |-> IdentAt(<<i, 1, 2>>)]]>>],
                        [name |-> "u2", span |-> <<i, 2>>, conns |-> <<>>]>>]
      [] kind = "VarDecl" ->
           [k |-> "VarDecl", span |-> <<i>>,
            ty |-> TypeAt(<<i, 0>>, [k |-> "LogicType"]),
            names |-> <<InitName(i, 1, "v"), DeclName(i, 2, "w")>>]
      [] kind = "NetDecl" -> NetDeclItem(i, <<"n">>, "None", <<>>)
      [] kind = "Procedure" ->
           [k |-> "Procedure", span |-> <<i>>, kind |-> "Always",
            stmt |-> NullStmtAt(<<i, 0>>)]
      [] kind = "GenerateIf" ->
           [k |-> "GenerateIf", span |-> <<i>>, cond |-> IdentAt(<<i, 0>>),
            main_block |-> [items |-> <<[k |-> "VarDecl", span |-> <<i, 1>>,
                                         ty |-> TypeAt(<<i, 1, 0>>, [k |-> "LogicType"]),
                                         names |-> <<InitName(i, 2, "v"),
                                                     DeclName(i, 3, "w")>>]>>],
            else_block |-> Some([items |-> <<>>])]
      [] kind = "GenerateFor" ->
           [k |-> "GenerateFor", span |-> <<i>>,
            init |-> [span |-> <<i, 0>>, label |-> None,
                      data |-> [k |-> "GenvarDeclStmt",
                                decls |-> <<[name |-> "g", span |-> <<i, 0, 1>>,
                                             init |-> Some(IdentAt(<<i, 0, 2>>))]>>]],
            cond |-> IdentAt(<<i, 1>>), step |-> IdentAt(<<i, 2>>),
            block |-> [items |-> <<>>]]
      [] kind = "ParamDecl" ->
           [k |-> "ParamDecl", span |-> <<i>>, local |-> FALSE,
            kind |-> [k |-> "Value",
                      decls |-> <<[name |-> "P", span |-> <<i, 1>>,
                                   ty |-> TypeAt(<<i, 1, 0>>, [k |-> "ImplicitType"]),
                                   expr |-> Some(IdentAt(<<i, 1, 1>>))],
                                  [name |-> "Q", span |-> <<i, 2>>,
                                   ty |-> TypeAt(<<i, 2, 0>>, [k |-> "ImplicitType"]),
                                   expr |-> None]>>]]
      [] kind = "TypeParamDecl" ->
           [k |-> "ParamDecl", span |-> <<i>>, local |-> FALSE,
            kind |-> [k |-> "Type",
                      decls |-> <<[name |-> "T", span |-> <<i, 1>>,
                                   ty |-> Some(TypeAt(<<i, 1, 0>>,
                                                      [k |-> "LogicType"]))]>>]]
      [] kind = "Typedef" ->
           [k |-> "Typedef", span |-> <<i>>, name |-> "t",
            ty |-> TypeAt(<<i, 0>>, [k |-> "LogicType"])]
      [] kind = "ContAssign" ->
           [k |-> "ContAssign", span |-> <<i>>,
            assignments |-> << <<IdentAt(<<i, 1>>), IdentAt(<<i, 2>>)>>,
                               <<IdentAt(<<i, 3>>), IdentAt(<<i, 4>>)>> >>]
      [] kind = "ImportDecl" ->
           [k |-> "ImportDecl", span |-> <<i>>,
            items |-> <<[pkg |-> "p", name |-> Some("x"), span |-> <<i, 1>>],
                        [pkg |-> "q", name |-> None, span |-> <<i, 2>>]>>]
      [] kind = "ClassDecl" -> [k |-> "ClassDecl", span |-> <<i>>]

(* The port at position i of an ANSI port list: input logic <name> [= x]. *)
AnsiPort(i, name, expr) ==
    [k |-> "Named", span |-> <<0, i>>, name |-> name, dir |-> Some("Input"),
     kind |-> None, ty |-> TypeAt(<<0, i, 0>>, [k |-> "LogicType"]), dims |-> <<>>,
     expr |-> expr]

ModuleHeads == {"bare", "ansi"}

(* module m; <items> endmodule                                               *)
(* module m #(parameter P = x, Q) (input logic a = x, input logic b);        *)
(*     <items> endmodule                                                     *)
UnitModules ==
    {[span |-> <<>>, name |-> "m",
      params |-> IF head = "ansi" THEN <<UnitItem(0, "ParamDecl")>> ELSE <<>>,
      ports |-> IF head = "ansi"
                THEN <<AnsiPort(1, "a", Some(IdentAt(<<0, 1, 1>>))),
                       AnsiPort(2, "b", None)>>
                ELSE <<>>,
      items |-> [i \in DOMAIN kinds |-> UnitItem(i, kinds[i])]] :
        head \in ModuleHeads, kinds \in SeqsUpTo(UnitItemKinds, MaxBlockItems)}

(* struct { logic a = x, b; int c; }     enum { A = x, B }                   *)
(* enum logic { A = x, B }                                                   *)
UnitTypes ==
    {TypeAt(<<>>, [k |-> "StructType",
                   members |-> <<[span |-> <<1>>,
                                  ty |-> TypeAt(<<1, 0>>, [k |-> "LogicType"]),
                                  names |-> <<InitName(1, 1, "a"),
                                              DeclName(1, 2, "b")>>],
                                 [span |-> <<2>>,
                                  ty |-> TypeAt(<<2, 0>>, [k |-> "IntType"]),
                                  names |-> <<DeclName(2, 1, "c")>>]>>])}
    \cup
    {TypeAt(<<>>, [k |-> "EnumType", repr |-> repr,
                   names |-> <<[name |-> "A", name_span |-> <<1>>,
                                value |-> Some(IdentAt(<<1, 1>>))],
                               [name |-> "B", name_span |-> <<2>>,
                                value |-> None]>>]) :
        repr \in {None, Some(TypeAt(<<0>>, [k |-> "LogicType"]))}}

StmtKinds == {"NullStmt", "VarDeclStmt", "ExprStmt", "SequentialBlock"}

(* The statement of kind `kind` at position i of a sequential block:         *)
(*   ;     logic v = x, w;     x;     begin ; end                            *)
BlockStmt(i, kind) ==
    [span |-> <<i>>, label |-> None,
     data |-> CASE kind = "NullStmt" -> [k |-> "NullStmt"]
                [] kind = "VarDeclStmt" ->
                     [k |-> "VarDeclStmt",
                      decl |-> [k |-> "VarDecl", span |-> <<i>>,
                                ty |-> TypeAt(<<i, 0>>, [k |-> "LogicType"]),
                                names |-> <<InitName(i, 1, "v"), DeclName(i, 2, "w")>>]]
                [] kind = "ExprStmt" -> [k |-> "ExprStmt", expr |-> IdentAt(<<i, 0>>)]
                [] kind = "SequentialBlock" ->
                     [k |-> "SequentialBlock", stmts |-> <<NullStmtAt(<<i, 1>>)>>]]

(* begin <statements> end *)
UnitBlocks ==
    {[span |-> <<>>, label |-> None,
      data |-> [k |-> "SequentialBlock",
                stmts |-> [i \in DOMAIN kinds |-> BlockStmt(i, kinds[i])]]] :
        kinds \in SeqsUpTo(StmtKinds, MaxStmts)}

PackageItemKinds == UnitItemKinds \cup {"SubroutineDecl"}

(* The item of kind `kind` at position i of a package body; a subroutine is  *)
(*   function f; endfunction                                                 *)
PackageItem(i, kind) ==
    IF kind = "SubroutineDecl" THEN [k |-> "SubroutineDecl", span |-> <<i>>]
    ELSE UnitItem(i, kind)

(* package p; <items> endpackage *)
UnitPackages ==
    {[span |-> <<>>, name |-> "p",
      items |-> [i \in DOMAIN kinds |-> PackageItem(i, kinds[i])]] :
        kinds \in SeqsUpTo(PackageItemKinds, MaxBlockItems)}

PortShapes ==
    {"(expr)", ".p(x)", "input .p(x)", "a", "input a", "wire a", "a [7:0]", "a = x",
     "logic a", "signed a", "unsigned a", "[7:0] a"}

PortNames == <<"a", "b", "c">>

(* The port list entry of shape `shape` at position i: an implicit port, an  *)
(* explicit port without or with a direction, or a named port that is bare   *)
(* or has exactly one of direction, kind, unpacked dimensions, initialiser,  *)
(* type, sign and packed dimensions.                                         *)
PortEntry(i, shape) ==
    LET bare == BarePort(i, PortNames[i])
    IN CASE shape = "(expr)" -> [k |-> "Implicit", span |-> <<0, i>>]
         [] shape = ".p(x)" -> [k |-> "Explicit", span |-> <<0, i>>, dir |-> None]
         [] shape = "input .p(x)" ->
              [k |-> "Explicit", span |-> <<0, i>>, dir |-> Some("Input")]
         [] shape = "a" -> bare
         [] shape = "input a" -> [bare EXCEPT !.dir = Some("Input")]
         [] shape = "wire a" ->
              [bare EXCEPT !.kind = Some([k |-> "Net", net_type |-> "wire"])]
         [] shape = "a [7:0]" -> [bare EXCEPT !.dims = Range70(i)]
         [] shape = "a = x" -> [bare EXCEPT !.expr = Some(IdentAt(<<0, i, 1>>))]
         [] shape = "logic a" -> [bare EXCEPT !.ty.data = [k |-> "LogicType"]]
         [] shape = "signed a" -> [bare EXCEPT !.ty.sign = "Signed"]
         [] shape = "unsigned a" -> [bare EXCEPT !.ty.sign = "Unsigned"]
         [] shape = "[7:0] a" -> [bare EXCEPT !.ty.dims = Range70(i)]

StyleBodies ==
    {"empty", "input a; input a;", "input a; logic a; wire [7:0] a;",
     "input wire a; logic a;", "input var a; wire [7:0] a;", "input a; logic a;"}

(* The bodies of the modules of StyledModules: nothing, a port declared      *)
(* twice, a port with both a variable and a net declaration, a net port with *)
(* a variable declaration, a variable port with a net declaration, or a port *)
(* completed by a variable declaration.                                      *)
StyleBody(body) ==
    CASE body = "empty" -> <<>>
      [] body = "input wire a; logic a;" ->
           <<BodyItem(1, "input wire a"), BodyItem(2, "logic a")>>
      [] body = "input var a; wire [7:0] a;" ->
           <<BodyItem(1, "input var a"), BodyItem(2, "wire [7:0] a")>>
      [] body = "input a; logic a;" -> <<BodyItem(1, "input a"), BodyItem(2, "logic a")>>
      [] body = "input a; input a;" -> <<BodyItem(1, "input a"), BodyItem(2, "input a")>>
      [] body = "input a; logic a; wire [7:0] a;" ->
           <<BodyItem(1, "input a"), BodyItem(2, "logic a"), BodyItem(3, "wire [7:0] a")>>

(* module m(<port entries>); <body> endmodule *)
StyledModules ==
    {[span |-> <<>>, name |-> "m", params |-> <<>>,
      ports |-> [i \in DOMAIN shapes |-> PortEntry(i, shapes[i])],
      items |-> StyleBody(body)] :
        shapes \in SeqsUpTo(PortShapes, MaxPorts), body \in StyleBodies}

GenItemKinds == {"VarDecl", "Typedef", "ClassDecl"}

(* The bodies of the generate constructs; `at` is the position of the body   *)
(* in the construct, the item at position i of the body is at <<at, i>>.     *)
GenBodies(at) ==
    {[items |-> [i \in DOMAIN kinds |-> UnitItem(at * 10 + i, kinds[i])]] :
        kinds \in SeqsUpTo(GenItemKinds, MaxBlockItems)}

GenvarNames == <<"g", "h", "i">>

(* The initialisation of a generate-for: `genvar g = x, h, ...` with n       *)
(* genvars, or for n = 0 a statement that declares none: `x;`.               *)
GenInit(n) ==
    [span |-> <<0>>, label |-> None,
     data |-> IF n = 0 THEN [k |-> "ExprStmt", expr |-> IdentAt(<<0, 0>>)]
              ELSE [k |-> "GenvarDeclStmt",
                    decls |-> [j \in 1..n |->
                                  [name |-> GenvarNames[j], span |-> <<0, j>>,
                                   init |-> IF j = 1 THEN Some(IdentAt(<<0, j, 1>>))
                                            ELSE None]]]]

(* for (<init>; x; x) begin <items> end *)
GenFors ==
    {[k |-> "GenerateFor", span |-> <<>>, init |-> GenInit(n),
      cond |-> IdentAt(<<1>>), step |-> IdentAt(<<2>>), block |-> body] :
        n \in 0..MaxGenvars, body \in GenBodies(3)}

(* if (x) begin <items> end [else begin <items> end] *)
GenIfs ==
    {[k |-> "GenerateIf", span |-> <<>>, cond |-> IdentAt(<<0>>),
      main_block |-> main, else_block |-> els] :
        main \in GenBodies(1), els \in {None} \cup {Some(b) : b \in GenBodies(2)}}

(* for (<init>; x; x) <body>, both statements drawn from StmtKinds. *)
ForStmts ==
    {[span |-> <<>>, label |-> None,
      data |-> [k |-> "ForStmt", init |-> BlockStmt(1, init), cond |-> IdentAt(<<2>>),
                step |-> IdentAt(<<3>>), body |-> BlockStmt(4, body)]] :
        init \in StmtKinds, body \in StmtKinds}

SysNames == {"clog2", "bits", "signed", "unsigned", "display", "random"}

(* The callees: a system identifier $<name>, or the plain identifier x. *)
Callees ==
    {[span |-> <<0>>, data |-> [k |-> "SysIdentExpr", name |-> n]] : n \in SysNames}
    \cup {IdentAt(<<0>>)}

ArgKinds == {"x", ".a(x)", "empty"}

(* The argument of kind `kind` at position i of a call. *)
CallArg(i, kind) ==
    [span |-> <<i>>,
     name |-> IF kind = ".a(x)" THEN Some("a") ELSE None,
     expr |-> IF kind = "empty" THEN None ELSE Some(IdentAt(<<i, 0>>))]

(* <callee>(<arguments>) *)
CallExprs ==
    {[span |-> <<>>,
      data |-> [k |-> "CallExpr", callee |-> c,
                args |-> [i \in DOMAIN kinds |-> CallArg(i, kinds[i])]]] :
        c \in Callees, kinds \in SeqsUpTo(ArgKinds, MaxArgs)}

TimeChars == {"0", "2", "5", "x"}
TimeUnits ==
    {"Second", "MilliSecond", "MicroSecond", "NanoSecond", "PicoSecond", "FemtoSecond"}

(* <int>[.<frac>]<unit> *)
TimeExprs ==
    {[span |-> <<>>, data |-> [k |-> "Time", int |-> int, frac |-> frac, unit |-> u]] :
        int \in SeqsUpTo(TimeChars, MaxDigits) \ {<<>>},
        frac \in {None} \cup {Some(f) : f \in SeqsUpTo(TimeChars, MaxDigits) \ {<<>>}},
        u \in TimeUnits}

InitLit == InitWith({AstExpr(e) : e \in BasedIntegerExprs})
InitPattern == InitWith({AstExpr(e) : e \in PatternExprs})
InitCase == InitWith({AstStmt(s) : s \in CaseStmts})
InitEvent == InitWith({AstEventExpr(e) : e \in EventExprs})

InitPorts == InitWith({[node |-> "Module", ast |-> m] : m \in NonAnsiModules})

InitCall == InitWith({AstExpr(e) : e \in CallExprs})
InitTime == InitWith({AstExpr(e) : e \in TimeExprs})
InitScopes ==
    InitWith({[node |-> "GenFor", ast |-> g] : g \in GenFors}
             \cup {[node |-> "GenIf", ast |-> g] : g \in GenIfs}
             \cup {AstStmt(f) : f \in ForStmts})
InitStyle == InitWith({[node |-> "Module", ast |-> m] : m \in StyledModules})

InitUnits ==
    InitWith({[node |-> "Module", ast |-> m] : m \in UnitModules}
             \cup {[node |-> "Package", ast |-> q] : q \in UnitPackages}
             \cup {AstType(t) : t \in UnitTypes}
             \cup {AstStmt(s) : s \in UnitBlocks})

SpecLit == InitLit /\ [][Next]_vars
SpecPattern == InitPattern /\ [][Next]_vars
SpecCase == InitCase /\ [][Next]_vars
SpecEvent == InitEvent /\ [][Next]_vars
SpecPorts == InitPorts /\ [][Next]_vars
SpecCall == InitCall /\ [][Next]_vars
SpecTime == InitTime /\ [][Next]_vars
SpecUnits == InitUnits /\ [][Next]_vars
SpecStyle == InitStyle /\ [][Next]_vars
SpecScopes == InitScopes /\ [][Next]_vars

----------------------------------------------------------------------------
(* Vocabulary of the properties.                                             *)

(* The root node of the unit has been lowered. *)
RootLowered == hirs[1] # NoHir
RootAst == nodes[1].ast.ast
RootIs(node) == nodes[1].ast.node = node

(* The diagnostics with message `msg`, in emission order. *)
DiagsWith(msg) == SelectSeq(diags, LAMBDA d : d.msg = msg)

(* The sub-sequence of s whose elements satisfy Test, by position. *)
Positions(s, Test(_)) == {i \in DOMAIN s : Test(s[i])}

RECURSIVE Pow(_, _)
Pow(b, e) == IF e = 0 THEN 1 ELSE b * Pow(b, e - 1)

----------------------------------------------------------------------------
(* Event flattening.                                                         *)

RECURSIVE EdgeLeaves(_)
(* The Edge leaves of an event-expression tree, left to right. *)
EdgeLeaves(t) ==
    CASE t.k = "Edge" -> <<t>>
      [] t.k = "Iff" -> EdgeLeaves(t.expr)
      [] t.k = "Or" -> EdgeLeaves(t.lhs) \o EdgeLeaves(t.rhs)

RECURSIVE SubtreeAt(_, _)
(* The node of tree t at position `path`. *)
SubtreeAt(t, path) ==
    IF path = <<>> THEN t
    ELSE IF t.k = "Iff" THEN SubtreeAt(t.expr, Tail(path))
    ELSE IF Head(path) = 1 THEN SubtreeAt(t.lhs, Tail(path))
    ELSE SubtreeAt(t.rhs, Tail(path))

(* The Iff nodes on the way from the root of t to the node at `path`,        *)
(* outermost first.                                                          *)
IffNodesAbove(t, path) ==
    SelectSeq([i \in 1..Len(path) |-> SubtreeAt(t, SubSeq(path, 1, i - 1))],
              LAMBDA n : n.k = "Iff")

IsPrefix(p, q) == Len(p) <= Len(q) /\ SubSeq(q, 1, Len(p)) = p

(* C1: lowering an event expression yields one event per Edge leaf, in       *)
(* left-to-right order; the iff list of each event holds exactly the         *)
(* conditions of the Iff nodes above its leaf, outermost first, so no        *)
(* condition reaches a leaf outside its Iff's subtree; and lower_event_expr  *)
(* returns with the condition stack it was entered with.                     *)
C1_EventFlattening ==
    (RootIs("EventExpr") /\ RootLowered) =>
        LET t == RootAst
            lv == EdgeLeaves(t)
            cx0 == [nodes |-> <<nodes[1]>>, diags |-> <<>>, ports |-> <<>>, logs |-> <<>>]
        IN /\ hirs[1].ok
           /\ Len(hirs[1].val.events) = Len(lv)
           /\ \A i \in DOMAIN lv :
                LET ev == hirs[1].val.events[i]
                    above == IffNodesAbove(t, lv[i].span)
                IN /\ ev.span = lv[i].span
                   /\ ev.edge = lv[i].edge
                   /\ nodes[ev.expr].ast = AstExpr(lv[i].value)
                   /\ Len(ev.iff) = Len(above)
                   /\ \A j \in DOMAIN above :
                        nodes[ev.iff[j]].ast = AstExpr(above[j].cond)
                   /\ \A j \in DOMAIN ev.iff :
                        \E q \in Range([n \in 0..Len(lv[i].span) |->
                                           SubSeq(lv[i].span, 1, n)]) :
                            /\ SubtreeAt(t, q).k = "Iff"
                            /\ nodes[ev.iff[j]].ast = AstExpr(SubtreeAt(t, q).cond)
           /\ \A entry \in {<<>>, <<7>>, <<7, 8>>} :
                lower_event_expr(cx0, t, 1, <<>>, entry).cond_stack = entry

(* `posedge a or (negedge b iff c)` has been lowered: two events, the first  *)
(* unguarded and the second guarded by c.                                    *)
C1_Witness ==
    /\ RootIs("EventExpr") /\ RootLowered
    /\ RootAst.k = "Or" /\ RootAst.lhs.k = "Edge" /\ RootAst.rhs.k = "Iff"
    /\ RootAst.lhs.edge = "posedge"
    /\ RootAst.rhs.expr.k = "Edge" /\ RootAst.rhs.expr.edge = "negedge"
    /\ Len(hirs[1].val.events) = 2
    /\ hirs[1].val.events[1].iff = <<>>
    /\ Len(hirs[1].val.events[2].iff) = 1

----------------------------------------------------------------------------
(* Based integer literals.                                                   *)

RootLit == RootAst.data
RootIsLit == RootIs("Expr") /\ RootAst.data.k = "BasedInteger"

(* The value of one digit, x, z and ? read as 0. *)
DigitRead(c) == IF c \in {"x", "X", "z", "Z", "?"} THEN 0 ELSE DigitVal(c)

RECURSIVE PositionalSum(_, _, _)
(* The sum of digit i times radix^(L - i) over the positions i..L. *)
PositionalSum(digits, radix, i) ==
    IF i > Len(digits) THEN 0
    ELSE DigitRead(digits[i]) * Pow(radix, Len(digits) - i)
         + PositionalSum(digits, radix, i + 1)

RadixOf(base) == CASE base = "h" -> 16 [] base = "d" -> 10 [] base = "o" -> 8 [] base = "b" -> 2

(* The literal has one of the four base letters and only digits of that base. *)
ValidLit(d) ==
    /\ d.base \in {"h", "d", "o", "b"}
    /\ d.value # <<>>
    /\ \A i \in DOMAIN d.value : DigitRead(d.value[i]) < RadixOf(d.base)

Magnitude(d) == PositionalSum(d.value, RadixOf(d.base), 1)

(* The least w with m < 2^w. *)
MinWidth(m) == CHOOSE w \in 0..31 : m < Pow(2, w) /\ (w = 0 \/ m >= Pow(2, w - 1))

(* The size is written and is a number a machine word holds. *)
SizeGiven(d) == IsSome(d.size)
SizeReadable(d) ==
    /\ IsSome(d.size)
    /\ d.size[1] # <<>>
    /\ \A i \in DOMAIN d.size[1] : d.size[1][i] \in DecChars
    /\ Len(d.size[1]) <= 9
SizeOf(d) == PositionalSum(d.size[1], 10, 1)

(* C3: for base h, o or b and L digits both masks are L x bitsPerDigit long  *)
(* (4, 3, 1), whatever the size; x-bits is a subset of special-bits; a       *)
(* special bit is set exactly for the digits x, X, z, Z, ? and an x bit      *)
(* exactly for x, X.                                                         *)
C3_MaskLengths ==
    (RootIsLit /\ RootLowered /\ hirs[1].ok /\ RootLit.base \in {"h", "o", "b"}) =>
        LET d == RootLit
            c == hirs[1].val.kind
            per == CASE d.base = "h" -> 4 [] d.base = "o" -> 3 [] d.base = "b" -> 1
        IN /\ Len(c.special_bits) = Len(d.value) * per
           /\ Len(c.x_bits) = Len(d.value) * per
           /\ \A i \in 1..(Len(d.value) * per) :
                LET digit == d.value[((i - 1) \div per) + 1]
                IN /\ c.x_bits[i] => c.special_bits[i]
                   /\ c.special_bits[i] <=> digit \in {"x", "X", "z", "Z", "?"}
                   /\ c.x_bits[i] <=> digit \in {"x", "X"}

(* A sized octal literal holding an x and a z digit has been lowered. *)
C3_Witness ==
    /\ RootIsLit /\ RootLowered /\ hirs[1].ok
    /\ RootLit.base = "o" /\ RootLit.size = Some(<<"1">>)
    /\ RootLit.value = <<"x", "Z">>
    /\ Len(hirs[1].val.kind.special_bits) = 6

(* C4: a sized literal whose magnitude needs more bits than the size stores  *)
(* the magnitude modulo 2^size; a literal lowered without a "too large"      *)
(* warning stores the magnitude itself.                                      *)
C4_TruncatedValue ==
    (RootIsLit /\ RootLowered /\ hirs[1].ok) =>
        LET d == RootLit
            c == hirs[1].val.kind
        IN /\ (SizeGiven(d) /\ MinWidth(Magnitude(d)) > SizeOf(d))
                 => c.value = Magnitude(d) % Pow(2, SizeOf(d))
           /\ DiagsWith("is too large") = <<>> => c.value = Magnitude(d)

(* C5: for a literal with a valid base and valid digits, one "too large"     *)
(* warning is emitted exactly when a size is given and the minimal width of  *)
(* the magnitude (x, z, ? read as 0) exceeds it, and lowering succeeds all   *)
(* the same; the width is the size when one is given, else the minimal       *)
(* width.  A size that is no machine word is the one way such a literal      *)
(* fails, with a "not a valid integer size" error and no warning.            *)
C5_TooLargeWarning ==
    (RootIsLit /\ RootLowered /\ ValidLit(RootLit)) =>
        LET d == RootLit
            needed == MinWidth(Magnitude(d))
        IN IF SizeGiven(d) /\ ~SizeReadable(d)
           THEN /\ ~hirs[1].ok
                /\ Len(diags) = 1
                /\ diags[1].msg = "is not a valid integer size"
           ELSE /\ hirs[1].ok
                /\ Len(DiagsWith("is too large")) =
                       (IF SizeGiven(d) /\ needed > SizeOf(d) THEN 1 ELSE 0)
                /\ \A i \in DOMAIN diags :
                       diags[i].msg = "is too large" /\ diags[i].sev = "warning"
                /\ hirs[1].val.kind.width = (IF SizeGiven(d) THEN SizeOf(d) ELSE needed)

(* A literal too large for its size has been lowered with the warning, and   *)
(* an unsized literal of several bits without it.                            *)
C5_Witness ==
    /\ RootIsLit /\ RootLowered /\ hirs[1].ok
    /\ RootLit.size = Some(<<"3">>) /\ RootLit.base = "h" /\ RootLit.value = <<"f", "?">>
    /\ Len(diags) = 1
    /\ hirs[1].val.kind.width = 3

----------------------------------------------------------------------------
(* Case statements.                                                          *)

RootIsCase == RootIs("Stmt") /\ RootAst.data.k = "CaseStmt"
RootItems == RootAst.data.items

(* The arms of kind k, in source order. *)
ArmsOf(k) == SelectSeq(RootItems, LAMBDA item : item.k = k)

(* Some node of the table stands for the AST node `ast`. *)
Mapped(ast) == \E id \in DOMAIN nodes : nodes[id].ast = ast

(* C6: a case statement with k >= 1 default arms lowers successfully with    *)
(* exactly k - 1 "multiple default cases" diagnostics; its default is the    *)
(* body of the first default arm; the bodies of the later default arms are   *)
(* referenced nowhere; every expression arm is kept, in source order.        *)
C6_MultipleDefaults ==
    (RootIsCase /\ RootLowered /\ ArmsOf("Default") # <<>>) =>
        LET defaults == ArmsOf("Default")
            arms == ArmsOf("Expr")
            c == hirs[1].val.kind
        IN /\ hirs[1].ok
           /\ Len(diags) = Len(defaults) - 1
           /\ \A i \in DOMAIN diags :
                /\ diags[i].msg = "multiple default cases"
                /\ diags[i].spans = <<defaults[i + 1].stmt.span>>
           /\ IsSome(c.default)
           /\ nodes[c.default[1]].ast = AstStmt(defaults[1].stmt)
           /\ \A i \in 2..Len(defaults) :
                /\ ~Mapped(AstStmt(defaults[i].stmt))
                /\ \A id \in {c.default[1]} \cup {c.ways[j][2] : j \in DOMAIN c.ways} :
                       nodes[id].ast # AstStmt(defaults[i].stmt)
           /\ Len(c.ways) = Len(arms)
           /\ \A j \in DOMAIN arms :
                /\ nodes[c.ways[j][2]].ast = AstStmt(arms[j].stmt)
                /\ Len(c.ways[j][1]) = Len(arms[j].exprs)
                /\ \A n \in DOMAIN arms[j].exprs :
                       nodes[c.ways[j][1][n]].ast = AstExpr(arms[j].exprs[n])

(* A case statement `default, arm, default` has been lowered. *)
C6_Witness ==
    /\ RootIsCase /\ RootLowered /\ hirs[1].ok
    /\ Len(RootItems) = 3
    /\ RootItems[1].k = "Default" /\ RootItems[2].k = "Expr" /\ RootItems[3].k = "Default"
    /\ Len(diags) = 1
    /\ Len(hirs[1].val.kind.ways) = 1

----------------------------------------------------------------------------
(* Pattern expressions.                                                      *)

RootIsPattern == RootIs("Expr") /\ RootAst.data.k = "PatternExpr"
RootFields == RootAst.data.fields

Positional(field) == field.data.k = "Expr"
Named(field) == field.data.k \in {"Type", "Member", "Default"}

(* C7: in a pattern whose first field is positional (named), every later     *)
(* field of another interpretation produces exactly one diagnostic citing it *)
(* and the first field and is absent from the result; the conforming fields  *)
(* are kept in source order; lowering succeeds with a positional (named)     *)
(* pattern.  An empty pattern lowers to the empty marker, no diagnostic.     *)
C7_InconsistentFields ==
    (RootIsPattern /\ RootLowered) =>
        LET fields == RootFields
            c == hirs[1].val.kind
        IN /\ hirs[1].ok
           /\ fields = <<>> =>
                c.k = "EmptyPattern" /\ diags = <<>> /\ Len(nodes) = 1
           /\ (fields # <<>> /\ Positional(fields[1])) =>
                LET kept == SelectSeq(fields, Positional)
                    dropped == SelectSeq(fields, LAMBDA f : ~Positional(f))
                IN /\ c.k = "PositionalPattern"
                   /\ Len(c.mapping) = Len(kept)
                   /\ \A i \in DOMAIN kept :
                        nodes[c.mapping[i]].ast = AstExpr(kept[i].data.expr)
                   /\ Len(nodes) = 1 + Len(kept)
                   /\ Len(diags) = Len(dropped)
                   /\ \A i \in DOMAIN dropped :
                        /\ diags[i].sev = "error"
                        /\ diags[i].msg = "not a positional pattern"
                        /\ diags[i].spans = <<dropped[i].span, fields[1].span>>
           /\ (fields # <<>> /\ Named(fields[1])) =>
                LET kept == SelectSeq(fields, Named)
                    dropped == SelectSeq(fields, LAMBDA f : ~Named(f))
                IN /\ c.k = "NamedPattern"
                   /\ Len(c.mapping) = Len(kept)
                   /\ \A i \in DOMAIN kept :
                        /\ c.mapping[i][1].k = kept[i].data.k
                        /\ nodes[c.mapping[i][2]].ast = AstExpr(kept[i].data.expr)
                        /\ kept[i].data.k = "Type" =>
                             nodes[c.mapping[i][1].id].ast = AstType(kept[i].data.ty)
                        /\ kept[i].data.k = "Member" =>
                             nodes[c.mapping[i][1].id].ast = AstExpr(kept[i].data.member)
                   /\ Len(nodes) = 1 + Len(kept)
                              + Cardinality(Positions(kept, LAMBDA f : f.data.k # "Default"))
                   /\ Len(diags) = Len(dropped)
                   /\ \A i \in DOMAIN dropped :
                        /\ diags[i].sev = "error"
                        /\ diags[i].msg = "not a named pattern"
                        /\ diags[i].spans = <<dropped[i].span, fields[1].span>>

(* The pattern '{1, foo: 2} has been lowered: one diagnostic, one element.   *)
C7_Witness ==
    /\ RootIsPattern /\ RootLowered /\ hirs[1].ok
    /\ Len(RootFields) = 2
    /\ RootFields[1].data.k = "Expr" /\ RootFields[2].data.k = "Member"
    /\ Len(diags) = 1
    /\ Len(hirs[1].val.kind.mapping) = 1

(* C8: a pattern of n fields whose first field is a repeat field emits       *)
(* exactly n - 1 "after repeat pattern" diagnostics, one per later field of  *)
(* any kind, succeeds, and holds only the count and the repeated             *)
(* sub-expressions of the first field.                                       *)
C8_FieldsAfterRepeat ==
    (RootIsPattern /\ RootLowered /\ RootFields # <<>>
        /\ RootFields[1].data.k = "Repeat") =>
        LET fields == RootFields
            first == fields[1].data
            c == hirs[1].val.kind
        IN /\ hirs[1].ok
           /\ Len(diags) = Len(fields) - 1
           /\ \A i \in DOMAIN diags :
                /\ diags[i].sev = "error"
                /\ diags[i].msg = "after repeat pattern"
                /\ diags[i].spans = <<fields[i + 1].span>>
           /\ c.k = "RepeatPattern"
           /\ nodes[c.count].ast = AstExpr(first.count)
           /\ Len(c.exprs) = Len(first.exprs)
           /\ \A i \in DOMAIN first.exprs : nodes[c.exprs[i]].ast = AstExpr(first.exprs[i])
           /\ Len(nodes) = 2 + Len(first.exprs)

(* A repeat pattern followed by a positional and a named field has been      *)
(* lowered with two diagnostics.                                             *)
C8_Witness ==
    /\ RootIsPattern /\ RootLowered /\ hirs[1].ok
    /\ Len(RootFields) = 3
    /\ RootFields[1].data.k = "Repeat" /\ RootFields[2].data.k = "Expr"
    /\ RootFields[3].data.k = "Default"
    /\ Len(diags) = 2
    /\ Len(hirs[1].val.kind.exprs) = 2

----------------------------------------------------------------------------
(* Non-ANSI port reconciliation.                                             *)

RootIsModule == RootIs("Module")

(* The partial port records as the two scans leave them, before the merge. *)
Scanned ==
    scan_ports([nodes |-> <<>>, diags |-> <<>>, ports |-> <<>>, logs |-> <<>>],
               RootAst.items).decls

(* The diagnostics with message `msg` about port `name`. *)
DiagsAbout(msg, name) == SelectSeq(diags, LAMBDA d : d.msg = msg /\ d.subj = name)

(* The declarations of kind k in the module body that declare `name`. *)
DeclsOf(k, name) ==
    SelectSeq(RootAst.items,
              LAMBDA item : item.k = k /\ \E j \in DOMAIN item.names :
                                              item.names[j].name = name)

(* The port record has neither a kind nor a type of its own. *)
Incomplete(port) == IsNone(port.kind) /\ port.ty = [k |-> "ImplicitType"]

(* The one fragment of an incomplete port that has exactly one. *)
HasOneFragment(port) == IsSome(port.var_decl) # IsSome(port.net_decl)
FragmentOf(port) ==
    IF IsSome(port.var_decl) THEN port.var_decl[1][1] ELSE port.net_decl[1][1]

(* C2: the sign merge of a port sign p and a fragment sign f: p = f gives p, *)
(* an unspecified f gives p, an unspecified p gives f, none of them with a   *)
(* diagnostic; two different explicit signs give exactly one "contradicting  *)
(* signs" diagnostic.                                                        *)
C2_SignMerge ==
    (RootIsModule /\ RootLowered) =>
        \A n \in DOMAIN ports :
            (Incomplete(Scanned[n]) /\ HasOneFragment(Scanned[n])) =>
                LET p == Scanned[n].sign
                    f == FragmentOf(Scanned[n]).ty.sign
                    contradictions == Len(DiagsAbout("port has contradicting signs", n))
                IN /\ p = f => ports[n].sign = p /\ contradictions = 0
                   /\ f = "None" => ports[n].sign = p /\ contradictions = 0
                   /\ p = "None" => ports[n].sign = f /\ contradictions = 0
                   /\ (p # f /\ p # "None" /\ f # "None") => contradictions = 1

(* `input signed a;` with `logic unsigned a;` has been reconciled: one       *)
(* contradiction.                                                            *)
C2_Witness ==
    /\ RootIsModule /\ RootLowered
    /\ "a" \in DOMAIN ports
    /\ Incomplete(Scanned["a"]) /\ HasOneFragment(Scanned["a"])
    /\ Scanned["a"].sign = "Signed"
    /\ FragmentOf(Scanned["a"]).ty.sign = "Unsigned"
    /\ Len(DiagsAbout("port has contradicting signs", "a")) = 1

(* C9: an incomplete port record with exactly one net fragment and no        *)
(* variable fragment ends with the kind net of the fragment's net type and   *)
(* with the fragment's type and dimensions merged into it, without a         *)
(* diagnostic when the signs do not contradict; a single variable fragment   *)
(* likewise gives the kind variable.                                         *)
C9_FragmentMerged ==
    (RootIsModule /\ RootLowered) =>
        \A n \in DOMAIN ports :
            (/\ Len(DeclsOf("PortDecl", n)) = 1
             /\ Incomplete(Scanned[n])
             /\ Len(DeclsOf("VarDecl", n)) + Len(DeclsOf("NetDecl", n)) = 1) =>
                LET port == Scanned[n]
                    frag == FragmentOf(port)
                    fname == IF IsSome(port.var_decl) THEN port.var_decl[1][2]
                             ELSE port.net_decl[1][2]
                IN /\ ports[n].kind = IF IsSome(port.net_decl)
                                      THEN Some([k |-> "Net", net_type |-> frag.net_type])
                                      ELSE Some([k |-> "Var"])
                   /\ frag.ty.data # [k |-> "ImplicitType"] => ports[n].ty = frag.ty.data
                   /\ port.packed_dims = <<>> => ports[n].packed_dims = frag.ty.dims
                   /\ port.unpacked_dims = <<>> => ports[n].unpacked_dims = fname.dims
                   /\ (port.sign = "None" \/ frag.ty.sign = "None"
                          \/ port.sign = frag.ty.sign) =>
                        \A i \in DOMAIN diags : diags[i].subj # n

(* C10: for a port record that already has a kind or a type of its own, each *)
(* variable or net fragment produces exactly one "port is complete" error,   *)
(* both fragments are discarded, the record's kind, type, sign and           *)
(* dimensions stay as the port declaration wrote them, and no "doubly        *)
(* declared" or "contradicting signs" diagnostic is emitted for the name.    *)
C10_CompletePort ==
    (RootIsModule /\ RootLowered) =>
        \A n \in DOMAIN ports :
            (IsSome(Scanned[n].kind) \/ Scanned[n].ty # [k |-> "ImplicitType"]) =>
                /\ Len(DiagsAbout("port is complete", n)) =
                       (IF DeclsOf("VarDecl", n) # <<>> THEN 1 ELSE 0)
                       + (IF DeclsOf("NetDecl", n) # <<>> THEN 1 ELSE 0)
                /\ ports[n].var_decl = None
                /\ ports[n].net_decl = None
                /\ \E i \in DOMAIN RootAst.items :
                       /\ RootAst.items[i].k = "PortDecl"
                       /\ \E j \in DOMAIN RootAst.items[i].names :
                              LET decl == RootAst.items[i]
                                  nm == decl.names[j]
                              IN /\ nm.name = n
                                 /\ ports[n].kind = decl.kind
                                 /\ ports[n].ty = decl.ty.data
                                 /\ ports[n].sign = decl.ty.sign
                                 /\ ports[n].packed_dims = decl.ty.dims
                                 /\ ports[n].unpacked_dims = nm.dims
                                 /\ ports[n].span = nm.name_span
                /\ ports[n].kind = Scanned[n].kind
                /\ ports[n].ty = Scanned[n].ty
                /\ ports[n].sign = Scanned[n].sign
                /\ ports[n].packed_dims = Scanned[n].packed_dims
                /\ ports[n].unpacked_dims = Scanned[n].unpacked_dims
                /\ DiagsAbout("port doubly declared as variable and net", n) = <<>>
                /\ DiagsAbout("port has contradicting signs", n) = <<>>

(* `input wire a;` with `wire [7:0] a;` and a variable of the same name has  *)
(* been reconciled: two "port is complete" errors, the record as written.    *)
C10_Witness ==
    /\ RootIsModule /\ RootLowered
    /\ "a" \in DOMAIN ports
    /\ ports["a"].kind = Some([k |-> "Net", net_type |-> "wire"])
    /\ DeclsOf("NetDecl", "a") # <<>>
    /\ DeclsOf("VarDecl", "a") # <<>>
    /\ Len(DiagsAbout("port is complete", "a")) = 2

----------------------------------------------------------------------------
(* The two scans of the non-ANSI reconciliation.                             *)

(* The first scan alone, from an empty map. *)
FirstScanned ==
    first_scan([cx |-> [nodes |-> <<>>, diags |-> <<>>, ports |-> <<>>, logs |-> <<>>],
                decls |-> <<>>, decl_order |-> <<>>, failed |-> FALSE],
               RootAst.items)

(* The entry of `name` in the name list of the declaration `decl`. *)
NameIn(decl, name) ==
    decl.names[CHOOSE j \in DOMAIN decl.names : decl.names[j].name = name]

(* The name spans of the declarations of a sequence that declare `name`. *)
NameSpans(decls, name) == {NameIn(decls[i], name).name_span : i \in DOMAIN decls}

(* C11: a port name declared by several bare port declarations gets one      *)
(* "declared multiple times" error per declaration after the first, citing   *)
(* the later and an earlier span; the record kept is the one of the first    *)
(* declaration; the name is once in the first-seen order.                    *)
C11_FirstPortKept ==
    (RootIsModule /\ RootLowered) =>
        \A n \in DOMAIN ports :
            LET ds == DeclsOf("PortDecl", n)
                errs == DiagsAbout("port declared multiple times", n)
            IN /\ Len(errs) = Len(ds) - 1
               /\ \A i \in DOMAIN errs :
                      /\ errs[i].spans[1] = NameIn(ds[i + 1], n).name_span
                      /\ errs[i].spans[2] \in NameSpans(SubSeq(ds, 1, i), n)
               /\ ports[n].span = NameIn(ds[1], n).name_span
               /\ FirstScanned.decls[n] = PartialNonAnsiPort(ds[1], NameIn(ds[1], n))
               /\ Cardinality(Positions(FirstScanned.decl_order, LAMBDA x : x = n)) = 1

(* C12: per port name at most one variable and one net fragment is recorded; *)
(* every further variable (net) declaration of the name gives one "declared  *)
(* multiple times" error citing both spans; the fragment kept is the first   *)
(* in source order; declarations of other names give no diagnostic.          *)
C12_FirstFragmentKept ==
    (RootIsModule /\ RootLowered) =>
        /\ \A n \in DOMAIN ports :
               \A f \in {<<"VarDecl", "var_decl", "port variable declared multiple times">>,
                         <<"NetDecl", "net_decl", "port net declared multiple times">>} :
                   LET ds == DeclsOf(f[1], n)
                       errs == DiagsAbout(f[3], n)
                   IN /\ Len(errs) = IF ds = <<>> THEN 0 ELSE Len(ds) - 1
                      /\ \A i \in DOMAIN errs :
                             /\ errs[i].spans[1] = NameIn(ds[i + 1], n).name_span
                             /\ errs[i].spans[2] \in NameSpans(SubSeq(ds, 1, i), n)
                      /\ Scanned[n][f[2]] = IF ds = <<>> THEN None
                                            ELSE Some(<<ds[1], NameIn(ds[1], n)>>)
        /\ \A i \in DOMAIN diags : diags[i].subj \in DOMAIN ports

----------------------------------------------------------------------------
(* Repeated requests.                                                        *)

(* No diagnostic is in the sink twice. *)
NoDuplicateDiag == \A i, j \in DOMAIN diags : diags[i] = diags[j] => i = j

(* No syntax node has two identities under one parent. *)
NoDuplicateChild ==
    \A i, j \in DOMAIN nodes :
        (nodes[i].ast = nodes[j].ast /\ nodes[i].parent = nodes[j].parent) => i = j

(* C14: a request for an identity that has been lowered returns the value    *)
(* returned before, emits no diagnostic and allocates no identity; after any *)
(* requests no diagnostic has been emitted twice and no child syntax node    *)
(* has two identities under one parent.                                      *)
C14_Idempotent ==
    [][/\ \A id \in DOMAIN hirs :
              hirs[id] # NoHir => hirs'[id] = hirs[id]
       /\ NoDuplicateDiag'
       /\ NoDuplicateChild']_vars

(* A module whose reconciliation emitted diagnostics has been lowered and so *)
(* has one of its children: the root is in the cache with diagnostics and    *)
(* children of its own.                                                      *)
C14_Witness ==
    /\ RootIsModule /\ RootLowered
    /\ Len(diags) >= 2
    /\ \E id \in DOMAIN hirs : id # 1 /\ hirs[id] # NoHir /\ hirs[id] # Panic
    /\ ENABLED HirOf(1)

----------------------------------------------------------------------------
(* Failures.                                                                 *)

(* The requests served so far that produced no HIR node. *)
Failed == {id \in DOMAIN hirs : hirs[id] # NoHir /\ ~hirs[id].ok}

(* C16: a request that produces no HIR node returns the failure value, and   *)
(* a diagnostic has been emitted by then; a port without a direction fails   *)
(* with a "port missing direction" diagnostic; no request ends in any other  *)
(* way than an HIR node or a diagnosed failure.                              *)
C16_DiagnosedFailure ==
    \A id \in Failed :
        /\ hirs[id] = Err
        /\ diags # <<>>
        /\ (nodes[id].ast.node = "Port" /\ nodes[id].ast.ast.k = "Named"
               /\ IsNone(nodes[id].ast.ast.dir)) =>
              \E i \in DOMAIN diags : diags[i].msg = "port missing direction"

----------------------------------------------------------------------------
(* The tree of identities.                                                   *)

RECURSIVE RootOf(_)
(* The node the parent links of node i end at. *)
RootOf(i) == IF nodes[i].parent = 0 THEN i ELSE RootOf(nodes[i].parent)

RECURSIVE Ancestors(_)
(* The nodes the parent links of node i pass through. *)
Ancestors(i) ==
    IF nodes[i].parent = 0 THEN {}
    ELSE {nodes[i].parent} \cup Ancestors(nodes[i].parent)

(* The HIR nodes lowered successfully. *)
Lowered == {i \in DOMAIN hirs : hirs[i].ok}

(* The type node shared by the declarations of a group. *)
TypeOfGroup(ids) == nodes[ids[1]].ast.ty

(* A lowered port whose type is a child of the port's parent. *)
PortTypeCase ==
    \E i \in Lowered : hirs[i].val.hir = "Port" /\ nodes[i].parent # i
                        /\ nodes[hirs[i].val.ty].parent = nodes[i].parent

(* A lowered typedef whose type is a child of the typedef's parent. *)
TypedefTypeCase ==
    \E i \in Lowered : hirs[i].val.hir = "Typedef"
                        /\ nodes[hirs[i].val.ty].parent = nodes[i].parent

(* A lowered struct member whose initialiser is a child of the member's type. *)
MemberInitCase ==
    \E i \in Lowered : nodes[i].ast.node = "StructMember" /\ IsSome(hirs[i].val.init)
                        /\ nodes[hirs[i].val.init[1]].parent = nodes[i].ast.ty
                        /\ nodes[i].ast.ty # i

(* A lowered enum variant whose value is a child of the enum type. *)
EnumValueCase ==
    \E i \in Lowered : hirs[i].val.hir = "EnumVariant" /\ IsSome(hirs[i].val.value)
                        /\ nodes[hirs[i].val.value[1]].parent = nodes[i].ast.decl
                        /\ nodes[i].ast.decl # i

(* A lowered inline declaration whose type is a child of the statement's     *)
(* parent.                                                                   *)
InlineDeclCase ==
    \E i \in Lowered : hirs[i].val.hir = "Stmt" /\ hirs[i].val.kind.k = "InlineGroup"
                        /\ nodes[TypeOfGroup(hirs[i].val.kind.stmts)].parent
                               = nodes[i].parent

(* C15: the root has no parent; the parent of every other node was allocated *)
(* strictly before the node, so the parent links of every node end at the    *)
(* root.  That holds for the children that are not children of the node      *)
(* being lowered too: the type and default of a port and the type of a       *)
(* typedef are children of the port's or typedef's parent, the initialiser of *)
(* a struct member is a child of the member's type, the value of an enum     *)
(* variant is a child of the enum type, and the declarations of an inline    *)
(* variable declaration hang off the statement's parent.                     *)
C15_ParentsPrecede ==
    /\ nodes[1].parent = 0
    /\ \A i \in DOMAIN nodes : i > 1 => nodes[i].parent \in 1..(i - 1)
    /\ \A i \in DOMAIN nodes : RootOf(i) = 1
    /\ \A i \in Lowered :
         LET h == hirs[i].val
             up == nodes[i].parent
         IN CASE h.hir = "Port" ->
                   /\ nodes[h.ty].parent = up
                   /\ IsSome(h.default) => nodes[h.default[1]].parent = up
              [] h.hir = "Typedef" -> nodes[h.ty].parent = up
              [] nodes[i].ast.node = "StructMember" ->
                   IsSome(h.init) => nodes[h.init[1]].parent = nodes[i].ast.ty
              [] h.hir = "EnumVariant" ->
                   IsSome(h.value) => nodes[h.value[1]].parent = nodes[i].ast.decl
              [] h.hir = "Stmt" /\ h.kind.k = "InlineGroup" ->
                   /\ nodes[TypeOfGroup(h.kind.stmts)].parent = up
                   /\ nodes[h.kind.stmts[1]].parent = TypeOfGroup(h.kind.stmts)
                   /\ \A j \in 2..Len(h.kind.stmts) :
                          nodes[h.kind.stmts[j]].parent = h.kind.stmts[j - 1]
              [] OTHER -> TRUE

(* A struct member with an initialiser has been lowered: the initialiser is  *)
(* a child of the member's type, a node allocated before the member.         *)
C15_Witness == MemberInitCase

----------------------------------------------------------------------------
(* Calls.                                                                    *)

RootIsCall == RootIs("Expr") /\ RootAst.data.k = "CallExpr"
RootCallee == RootAst.data.callee
RootArgs == RootAst.data.args

UnaryNames == {"clog2", "bits", "signed", "unsigned"}

(* The built-in tag of each of the four unary system calls. *)
TagOf(name) ==
    CASE name = "clog2" -> "Clog2" [] name = "bits" -> "Bits"
      [] name = "signed" -> "Signed" [] name = "unsigned" -> "Unsigned"

(* The call has exactly one argument, and that argument has an expression. *)
OneArgument == Len(RootArgs) = 1 /\ RootArgs[1].expr # None

(* C17: a call to $clog2, $bits, $signed or $unsigned with exactly one       *)
(* argument that has an expression lowers to the built-in of that name       *)
(* holding the identity of the argument, without a diagnostic; with any      *)
(* other argument list it fails after exactly one "takes one argument"       *)
(* error.  A call to any other system name succeeds as the unsupported       *)
(* built-in with exactly one warning, whatever its arguments, and none of    *)
(* the arguments gets an identity.  A call to anything but a system          *)
(* identifier fails as not implemented.                                      *)
C17_BuiltinCalls ==
    (RootIsCall /\ RootLowered) =>
        LET h == hirs[1]
            name == RootCallee.data.name
        IN CASE RootCallee.data.k = "SysIdentExpr" /\ name \in UnaryNames
                    /\ OneArgument ->
                  /\ h.ok
                  /\ h.val.kind.k = "Builtin"
                  /\ h.val.kind.call.k = TagOf(name)
                  /\ h.val.kind.call.arg = 2
                  /\ Len(nodes) = 2
                  /\ nodes[2] = [ast |-> AstExpr(RootArgs[1].expr[1]), parent |-> 1]
                  /\ diags = <<>>
             [] RootCallee.data.k = "SysIdentExpr" /\ name \in UnaryNames
                    /\ ~OneArgument ->
                  /\ h = Err
                  /\ Len(diags) = 1
                  /\ diags[1].sev = "error"
                  /\ diags[1].msg = "takes one argument"
                  /\ diags[1].subj = name
                  /\ Len(nodes) = 1
             [] RootCallee.data.k = "SysIdentExpr" /\ name \notin UnaryNames ->
                  /\ h.ok
                  /\ h.val.kind = [k |-> "Builtin", call |-> [k |-> "Unsupported"]]
                  /\ Len(diags) = 1
                  /\ diags[1].sev = "warning"
                  /\ diags[1].msg = "not supported; ignored"
                  /\ diags[1].subj = name
                  /\ Len(nodes) = 1
             [] OTHER ->
                  /\ h = Err
                  /\ Len(diags) = 1
                  /\ diags[1].msg = "not implemented"
                  /\ Len(nodes) = 1

(* $bits(x, x) has failed with its one error, no argument mapped. *)
C17_Witness ==
    /\ RootIsCall /\ RootLowered
    /\ RootCallee.data.k = "SysIdentExpr" /\ RootCallee.data.name = "bits"
    /\ Len(RootArgs) = 2 /\ RootArgs[1].expr # None /\ RootArgs[2].expr # None
    /\ hirs[1] = Err
    /\ Len(diags) = 1

(* $clog2(x) has been lowered to the Clog2 built-in. *)
UnaryCallCase ==
    /\ RootIsCall /\ RootLowered /\ hirs[1].ok /\ OneArgument
    /\ hirs[1].val.kind.call = [k |-> "Clog2", arg |-> 2]

(* $display(x, x) has been lowered to the unsupported built-in. *)
UnsupportedCallCase ==
    /\ RootIsCall /\ RootLowered /\ hirs[1].ok /\ Len(RootArgs) = 2
    /\ hirs[1].val.kind.call.k = "Unsupported"

(* x(x) has failed. *)
PlainCalleeCase ==
    /\ RootIsCall /\ RootLowered /\ hirs[1] = Err
    /\ RootCallee.data.k = "IdentExpr" /\ OneArgument

----------------------------------------------------------------------------
(* Time literals.                                                            *)

RootIsTime == RootIs("Expr") /\ RootAst.data.k = "Time"

(* The fractional digits of the literal, none if it has no fraction. *)
RootFrac == IF RootAst.data.frac = None THEN <<>> ELSE RootAst.data.frac[1]

(* The integer digits followed by the fractional digits. *)
RootDigits == RootAst.data.int \o RootFrac

(* The steps of 1000 between the second and the unit. *)
UnitSteps(unit) ==
    CASE unit = "Second" -> 0 [] unit = "MilliSecond" -> 1
      [] unit = "MicroSecond" -> 2 [] unit = "NanoSecond" -> 3
      [] unit = "PicoSecond" -> 4 [] unit = "FemtoSecond" -> 5

(* The decimal places the value lies below the digits read as an integer. *)
RootShift == Len(RootFrac) + 3 * UnitSteps(RootAst.data.unit)

(* C18: a time literal whose digits are decimal lowers, without a            *)
(* diagnostic, to the rational v with                                        *)
(*     v * 10^len(F) * 1000^k = the value of the digits I followed by F,     *)
(* k the steps from the second to the unit, and v is in lowest terms;        *)
(* nothing is rounded.  A literal with a character that is not a decimal     *)
(* digit fails after exactly one "is not a number literal" error.            *)
C18_TimeLiteral ==
    (RootIsTime /\ RootLowered) =>
        IF \A i \in DOMAIN RootDigits : RootDigits[i] \in DecChars
        THEN /\ hirs[1].ok
             /\ diags = <<>>
             /\ hirs[1].val.kind.k = "TimeConst"
             /\ LET v == hirs[1].val.kind.value
                    N == PositionalSum(RootDigits, 10, 1)
                IN IF N = 0 THEN v = [mant |-> 0, e2 |-> 0, e5 |-> 0]
                   ELSE /\ v.mant % 2 # 0 /\ v.mant % 5 # 0
                        /\ v.e2 + RootShift >= 0
                        /\ v.e5 + RootShift >= 0
                        /\ v.mant * Pow(2, v.e2 + RootShift) * Pow(5, v.e5 + RootShift)
                               = N
        ELSE /\ hirs[1] = Err
             /\ Len(diags) = 1
             /\ diags[1].sev = "error"
             /\ diags[1].msg = "is not a number literal"
             /\ diags[1].spans = <<RootAst.span>>

(* 2.5ns has been lowered to 1 / (2^10 * 5^8) = 25 / 10^10. *)
C18_Witness ==
    /\ RootIsTime /\ RootLowered /\ hirs[1].ok
    /\ RootAst.data.int = <<"2">> /\ RootFrac = <<"5">>
    /\ RootAst.data.unit = "NanoSecond"
    /\ hirs[1].val.kind.value = [mant |-> 1, e2 |-> -10, e5 |-> -8]

(* 2.x5 s has failed with its one error. *)
BadTimeCase ==
    /\ RootIsTime /\ RootLowered /\ hirs[1] = Err /\ Len(diags) = 1
    /\ RootFrac = <<"x", "5">>

----------------------------------------------------------------------------
(* Sequential blocks.                                                        *)

(* The lowered sequential blocks. *)
LoweredBlocks ==
    {b \in Lowered : nodes[b].ast.node = "Stmt"
                     /\ nodes[b].ast.ast.data.k = "SequentialBlock"}

(* C19: a sequential block of n statements lowers to a block holding n       *)
(* identities in source order, one per statement; the parent of the first    *)
(* statement is the block and the parent of every later statement is the     *)
(* statement before it, so the parent links of a statement pass through the  *)
(* statements before it and through none after it.                           *)
C19_BlockRibs ==
    \A b \in LoweredBlocks :
        LET stmts == nodes[b].ast.ast.data.stmts
            ids == hirs[b].val.kind.stmts
        IN /\ hirs[b].val.kind.k = "Block"
           /\ Len(ids) = Len(stmts)
           /\ \A i \in DOMAIN ids :
                /\ nodes[ids[i]].ast = AstStmt(stmts[i])
                /\ nodes[ids[i]].parent = IF i = 1 THEN b ELSE ids[i - 1]
                /\ Ancestors(ids[i]) \cap Range(ids) = {ids[j] : j \in 1..(i - 1)}
                /\ b \in Ancestors(ids[i])
           /\ \A i, j \in DOMAIN ids : i < j => ids[i] < ids[j]

(* A block of three statements has been lowered: the third statement hangs   *)
(* off the second, the second off the first, the first off the block.        *)
C19_Witness ==
    /\ 1 \in LoweredBlocks
    /\ Len(hirs[1].val.kind.stmts) = 3
    /\ nodes[hirs[1].val.kind.stmts[3]].parent = hirs[1].val.kind.stmts[2]
    /\ nodes[hirs[1].val.kind.stmts[2]].parent = hirs[1].val.kind.stmts[1]
    /\ nodes[hirs[1].val.kind.stmts[1]].parent = 1

(* A block nested in a block has been lowered. *)
NestedBlockCase == \E b \in LoweredBlocks : b # 1 /\ hirs[b].val.kind.stmts # <<>>

----------------------------------------------------------------------------
(* Module blocks.                                                            *)

(* n copies of x. *)
Copies(x, n) == [i \in 1..n |-> x]

(* The kinds of the nodes one item of a module block is allocated, in        *)
(* allocation order.                                                         *)
NodesOfItem(item) ==
    CASE item.k = "Inst" -> <<"InstTarget">> \o Copies("Inst", Len(item.names))
      [] item.k = "VarDecl" -> <<"Type">> \o Copies("VarDecl", Len(item.names))
      [] item.k = "NetDecl" -> <<"Type">> \o Copies("NetDecl", Len(item.names))
      [] item.k = "Procedure" -> <<"Proc">>
      [] item.k = "GenerateIf" -> <<"GenIf">>
      [] item.k = "GenerateFor" -> <<"GenFor">>
      [] item.k = "ParamDecl" ->
           Copies(IF item.kind.k = "Type" THEN "TypeParam" ELSE "ValueParam",
                  Len(item.kind.decls))
      [] item.k = "Typedef" -> <<"Typedef">>
      [] item.k = "ContAssign" -> Copies("ContAssign", Len(item.assignments))
      [] item.k = "ImportDecl" -> Copies("Import", Len(item.items))
      [] OTHER -> <<>>

RECURSIVE NodesOfItems(_, _)
(* The pairs <<kind, position of the item>> of the nodes the items from      *)
(* position i on are allocated.                                              *)
NodesOfItems(items, i) ==
    IF i > Len(items) THEN <<>>
    ELSE [j \in DOMAIN NodesOfItem(items[i]) |-> <<NodesOfItem(items[i])[j], i>>]
         \o NodesOfItems(items, i + 1)

(* The position in the module body of the item a node was allocated for,     *)
(* read off the span of the node's syntax.                                   *)
ItemOf(ast) ==
    CASE ast.node \in {"VarDecl", "NetDecl"} -> ast.decl.span[1]
      [] ast.node \in {"TypeParam", "ValueParam"} -> ast.param.span[1]
      [] ast.node = "Inst" -> ast.ast.span[1]
      [] ast.node = "ContAssign" -> ast.ast.span[1]
      [] OTHER -> ast.ast.span[1]

(* The identities i of s, in order, whose node is of one of the kinds. *)
OfKinds(s, kinds) == SelectSeq(s, LAMBDA i : nodes[i].ast.node \in kinds)

(* The identity given to the last parameter or port of the root module, the  *)
(* module itself if it has none: the rib its body starts from.               *)
BodyRib == 1 + Len(hirs[1].val.params) + Len(hirs[1].val.ports)

(* C20: the body of a module allocates its nodes item by item in source      *)
(* order: one target and one node per name of an instantiation, one type and *)
(* one node per name of a variable or net declaration, one node per          *)
(* procedure, generate construct, declared parameter, typedef, continuous    *)
(* assignment and imported name, and none for any other item.  The parent of *)
(* each of these nodes is the node allocated immediately before it, for    *)
(* the first one the rib the body starts from.  The six collections of the   *)
(* block hold the instances, declarations, procedures, generate constructs,  *)
(* parameters and assignments in that order; typedefs and imports are in     *)
(* none of them and still are the parent of what follows.                    *)
C20_BlockRibs ==
    (RootIsModule /\ RootLowered /\ hirs[1].ok) =>
        LET expected == NodesOfItems(RootAst.items, 1)
            ids == [j \in DOMAIN expected |-> BodyRib + j]
            block == hirs[1].val.block
        IN /\ Len(nodes) >= BodyRib + Len(expected)
           /\ \A j \in DOMAIN ids :
                /\ nodes[ids[j]].ast.node = expected[j][1]
                /\ ItemOf(nodes[ids[j]].ast) = expected[j][2]
                /\ nodes[ids[j]].parent = ids[j] - 1
           /\ block.insts = OfKinds(ids, {"Inst"})
           /\ block.decls = OfKinds(ids, {"VarDecl", "NetDecl"})
           /\ block.procs = OfKinds(ids, {"Proc"})
           /\ block.gens = OfKinds(ids, {"GenIf", "GenFor"})
           /\ block.params = OfKinds(ids, {"TypeParam", "ValueParam"})
           /\ block.assigns = OfKinds(ids, {"ContAssign"})

(* A module with parameters and ports whose body is a typedef followed by a  *)
(* variable declaration has been lowered: the typedef hangs off the last     *)
(* port and the type of the declaration off the typedef.                     *)
C20_Witness ==
    /\ RootIsModule /\ RootLowered /\ hirs[1].ok
    /\ hirs[1].val.ports # <<>>
    /\ Len(RootAst.items) = 2
    /\ RootAst.items[1].k = "Typedef" /\ RootAst.items[2].k = "VarDecl"
    /\ nodes[BodyRib + 1].ast.node = "Typedef"
    /\ nodes[BodyRib + 1].parent = hirs[1].val.ports[Len(hirs[1].val.ports)]
    /\ nodes[BodyRib + 2].ast.node = "Type"
    /\ nodes[BodyRib + 2].parent = BodyRib + 1
    /\ hirs[1].val.block.decls = <<BodyRib + 3, BodyRib + 4>>

(* An import followed by an instantiation: the target hangs off the import. *)
ImportRibCase ==
    /\ RootIsModule /\ RootLowered /\ hirs[1].ok
    /\ Len(RootAst.items) = 2
    /\ RootAst.items[1].k = "ImportDecl" /\ RootAst.items[2].k = "Inst"
    /\ nodes[BodyRib + 3].ast.node = "InstTarget"
    /\ nodes[nodes[BodyRib + 3].parent].ast.node = "Import"

----------------------------------------------------------------------------
(* Items without a rule.                                                     *)

RootIsPackage == RootIs("Package")

(* The kinds of item a module body and a package body have a rule for. *)
ModuleRuleKinds ==
    {"Inst", "VarDecl", "NetDecl", "Procedure", "GenerateIf", "GenerateFor",
     "ParamDecl", "Typedef", "ContAssign", "ImportDecl"}
PackageRuleKinds == {"VarDecl", "ParamDecl", "Typedef"}

(* The lines of the log at level `level`. *)
LogsAt(level) == SelectSeq(logs, LAMBDA l : l.level = level)

(* The positions of the items of the root whose kind is not among `kinds`. *)
Without(kinds) == {i \in DOMAIN RootAst.items : RootAst.items[i].k \notin kinds}

(* The first item of the root package that is neither lowered nor ignored,   *)
(* 0 if there is none.                                                       *)
FirstRejected ==
    LET bad == Without(PackageRuleKinds \cup {"SubroutineDecl"})
    IN IF bad = {} THEN 0 ELSE CHOOSE i \in bad : \A j \in bad : i <= j

(* Only the root has been lowered. *)
OnlyRoot == RootLowered /\ Requests = 1

(* The nodes allocated for `items` are exactly the nodes after `rib`, each   *)
(* the child of the one allocated before it.                                 *)
ChainedAfter(rib, items) ==
    LET expected == NodesOfItems(items, 1)
    IN /\ Len(nodes) = rib + Len(expected)
       /\ \A j \in DOMAIN expected :
            /\ nodes[rib + j].ast.node = expected[j][1]
            /\ ItemOf(nodes[rib + j].ast) = expected[j][2]
            /\ nodes[rib + j].parent = rib + j - 1

(* C21 as claimed: the body of a module and the body of a package are        *)
(* lowered successfully whatever items without a rule they hold, each such   *)
(* item skipped with one warning and without a diagnostic.                   *)
C21_UnhandledSkipped ==
    ((RootIsModule \/ RootIsPackage) /\ OnlyRoot) =>
        /\ hirs[1].ok
        /\ diags = <<>>
        /\ Len(LogsAt("warn"))
              = Cardinality(Without(IF RootIsModule THEN ModuleRuleKinds
                                    ELSE PackageRuleKinds))

(* C21, amended: in a module body every item without a rule is skipped with  *)
(* one warning, gets no node and leaves the cursor where it was, and the     *)
(* module is lowered successfully without a diagnostic.  In a package body   *)
(* that holds for subroutine declarations only: the first item that is       *)
(* neither a variable declaration, a parameter declaration, a typedef nor a  *)
(* subroutine makes the package fail after one "cannot appear in a package"  *)
(* error, the items before it allocated and none after it.                   *)
C21_SkippedItems ==
    /\ (RootIsModule /\ OnlyRoot) =>
          /\ hirs[1].ok
          /\ diags = <<>>
          /\ Len(LogsAt("warn")) = Cardinality(Without(ModuleRuleKinds))
          /\ ChainedAfter(BodyRib, RootAst.items)
    /\ (RootIsPackage /\ OnlyRoot /\ FirstRejected = 0) =>
          /\ hirs[1].ok
          /\ diags = <<>>
          /\ Len(LogsAt("warn")) = Cardinality(Without(PackageRuleKinds))
          /\ ChainedAfter(1, RootAst.items)
          /\ hirs[1].val.last_rib = Len(nodes)
    /\ (RootIsPackage /\ OnlyRoot /\ FirstRejected # 0) =>
          /\ hirs[1] = Err
          /\ Len(diags) = 1
          /\ diags[1].sev = "error"
          /\ diags[1].msg = "cannot appear in a package"
          /\ diags[1].spans = <<RootAst.items[FirstRejected].span>>
          /\ ChainedAfter(1, SubSeq(RootAst.items, 1, FirstRejected - 1))

(* A package of a typedef followed by an instantiation has failed, the       *)
(* typedef allocated and nothing for the instantiation.                      *)
C21_Witness ==
    /\ RootIsPackage /\ OnlyRoot
    /\ Len(RootAst.items) = 2
    /\ RootAst.items[1].k = "Typedef" /\ RootAst.items[2].k = "Inst"
    /\ hirs[1] = Err
    /\ Len(diags) = 1
    /\ Len(nodes) = 2

(* A package of a subroutine followed by a variable declaration has been     *)
(* lowered: the type of the declaration hangs off the package.               *)
SubroutineSkippedCase ==
    /\ RootIsPackage /\ OnlyRoot /\ hirs[1].ok
    /\ Len(RootAst.items) = 2
    /\ RootAst.items[1].k = "SubroutineDecl" /\ RootAst.items[2].k = "VarDecl"
    /\ nodes[2].parent = 1
    /\ Len(LogsAt("warn")) = 1

(* A module of a class followed by a procedure has been lowered: the         *)
(* procedure hangs off the rib the body started from.                        *)
ClassSkippedCase ==
    /\ RootIsModule /\ OnlyRoot /\ hirs[1].ok
    /\ Len(RootAst.items) = 2
    /\ RootAst.items[1].k = "ClassDecl" /\ RootAst.items[2].k = "Procedure"
    /\ nodes[BodyRib + 1].parent = BodyRib
    /\ Len(LogsAt("warn")) = 1

----------------------------------------------------------------------------
(* The scope of a port's type.                                               *)

(* The ports of the root module, once it is lowered. *)
RootPorts == hirs[1].val.ports

(* The rib that precedes the port list of the root module: its last          *)
(* parameter, or the module itself.                                          *)
PortListRib == 1 + Len(hirs[1].val.params)

(* The lowered ports of the root module, as positions of its port list. *)
LoweredPorts ==
    IF RootIsModule /\ RootLowered /\ hirs[1].ok
    THEN {k \in DOMAIN RootPorts : hirs[RootPorts[k]].ok}
    ELSE {}

(* The type and, if any, the default of the lowered port at position k. *)
ScopedOfPort(k) ==
    LET h == hirs[RootPorts[k]].val
    IN {h.ty} \cup (IF IsSome(h.default) THEN {h.default[1]} ELSE {})

(* The ports among the nodes. *)
PortNodes == {i \in DOMAIN nodes : nodes[i].ast.node = "Port"}

(* C22 as claimed: the type and the default of every lowered port are        *)
(* children of the rib that precedes the port list, and no port is on their  *)
(* rib chain.                                                                *)
C22_PortListScope ==
    \A k \in LoweredPorts : \A c \in ScopedOfPort(k) :
        /\ nodes[c].parent = PortListRib
        /\ Ancestors(c) \cap PortNodes = {}

(* C22, amended: the type and the default of a lowered port are children of  *)
(* the port's own parent, which for the first port is the rib that precedes  *)
(* the port list (the last parameter, or the module) and for every later     *)
(* port is the port just before it.  So their rib chain holds every earlier  *)
(* port, and neither the port itself nor a later one.                        *)
C22_PortScope ==
    \A k \in LoweredPorts : \A c \in ScopedOfPort(k) :
        /\ nodes[c].parent = nodes[RootPorts[k]].parent
        /\ nodes[c].parent = IF k = 1 THEN PortListRib ELSE RootPorts[k - 1]
        /\ Ancestors(c) \cap PortNodes = {RootPorts[j] : j \in 1..(k - 1)}

(* The second port of a module has been lowered: its type is a child of the  *)
(* first port.                                                               *)
C22_Witness ==
    /\ 2 \in LoweredPorts
    /\ nodes[hirs[RootPorts[2]].val.ty].parent = RootPorts[1]

(* The first port of a module with parameters has been lowered: its type and *)
(* its default are children of the last parameter.                          *)
FirstPortCase ==
    /\ 1 \in LoweredPorts
    /\ PortListRib > 1
    /\ Cardinality(ScopedOfPort(1)) = 2
    /\ \A c \in ScopedOfPort(1) : nodes[c].parent = PortListRib

----------------------------------------------------------------------------
(* The style of a port list.                                                 *)

(* The log entries with the message `msg`. *)
LogsWith(msg) == SelectSeq(logs, LAMBDA l : l.msg = msg)

(* The non-ANSI routine has run n times. *)
NonAnsiRan(n) == Len(LogsWith("Gathering ports inside module body")) = n

(* A first port list entry that is an implicit port, an explicit port        *)
(* without direction, or a named port with nothing but its name.             *)
BareEntry(first) ==
    \/ first.k = "Implicit"
    \/ first.k = "Explicit" /\ first.dir = None
    \/ /\ first.k = "Named"
       /\ first.dir = None /\ first.kind = None /\ first.dims = <<>>
       /\ first.expr = None
       /\ first.ty.data.k = "ImplicitType" /\ first.ty.sign = "None"
       /\ first.ty.dims = <<>>

(* C23: once a module is lowered, the routine that ran is read off the first *)
(* entry of its port list alone.  The non-ANSI routine ran, once, exactly    *)
(* when that entry is an implicit port, an explicit port without direction   *)
(* or a named port without direction, kind, unpacked dimensions,             *)
(* initialiser, type, sign and packed dimensions; with any other first entry *)
(* the ANSI routine ran, leaving no record and no diagnostic of its own.     *)
(* With an empty port list neither ran: no style is logged and there is no   *)
(* diagnostic, whatever port declarations the body holds.                    *)
C23_StyleOfFirstEntry ==
    (RootIsModule /\ OnlyRoot) =>
        IF RootAst.ports = <<>>
        THEN /\ LogsAt("debug") = <<>>
             /\ NonAnsiRan(0)
             /\ diags = <<>>
             /\ ports = <<>>
             /\ hirs[1].ok
        ELSE IF BareEntry(RootAst.ports[1])
        THEN /\ LogsAt("debug") = <<[level |-> "debug",
                                     msg |-> "Module uses non-ANSI style"]>>
             /\ NonAnsiRan(1)
        ELSE /\ LogsAt("debug") = <<[level |-> "debug",
                                     msg |-> "Module uses ANSI style"]>>
             /\ NonAnsiRan(0)
             /\ ports = <<>>
             /\ DiagsWith("not implemented") = diags

(* A module whose first port entry has a direction and whose second has      *)
(* nothing but its name has been lowered by the ANSI routine, the port       *)
(* declared twice in its body undiagnosed.                                   *)
C23_Witness ==
    /\ RootIsModule /\ OnlyRoot
    /\ Len(RootAst.ports) = 2
    /\ ~BareEntry(RootAst.ports[1]) /\ BareEntry(RootAst.ports[2])
    /\ Len(RootAst.items) = 2
    /\ LogsWith("Module uses ANSI style") # <<>>
    /\ diags = <<>>

(* A module whose first port entry has nothing but its name and whose second *)
(* has a direction has been lowered by the non-ANSI routine, which reported  *)
(* the port declared twice in the body.                                      *)
MixedNonAnsiCase ==
    /\ RootIsModule /\ OnlyRoot
    /\ Len(RootAst.ports) = 2
    /\ BareEntry(RootAst.ports[1]) /\ ~BareEntry(RootAst.ports[2])
    /\ NonAnsiRan(1)
    /\ DiagsWith("port declared multiple times") # <<>>

(* A module without ports whose body declares a port twice has been lowered  *)
(* without a diagnostic.                                                     *)
NoPortsCase ==
    /\ RootIsModule /\ OnlyRoot
    /\ RootAst.ports = <<>>
    /\ Len(RootAst.items) = 2
    /\ hirs[1].ok /\ diags = <<>>

----------------------------------------------------------------------------
(* The frame of the port reconciliation.                                     *)

(* The messages of the diagnostics of the non-ANSI reconciliation. *)
ReconciliationMsgs ==
    {"port declared multiple times", "port variable declared multiple times",
     "port net declared multiple times", "port is complete",
     "net port redeclared as variable", "variable port redeclared as net",
     "port doubly declared as variable and net", "port has contradicting signs"}

(* C24: the reconciliation leaves no trace but its diagnostics.  Once a      *)
(* module is lowered, its ports are the nodes right after the rib that       *)
(* precedes the port list, one per entry and in the order of the list, each  *)
(* holding its entry as written and each the child of the one before; the    *)
(* nodes of the body follow at once, so no node was allocated in between;    *)
(* every diagnostic is one of the reconciliation, and with an ANSI port list *)
(* there is none.  A port lowered afterwards has the direction, the type and *)
(* the default its entry wrote, in both styles.                              *)
C24_ReconciliationFrame ==
    /\ (RootIsModule /\ OnlyRoot /\ hirs[1].ok) =>
          /\ RootPorts = [k \in DOMAIN RootAst.ports |-> PortListRib + k]
          /\ \A k \in DOMAIN RootPorts :
                /\ nodes[RootPorts[k]].ast = [node |-> "Port", ast |-> RootAst.ports[k]]
                /\ nodes[RootPorts[k]].parent = PortListRib + k - 1
          /\ ChainedAfter(BodyRib, RootAst.items)
          /\ \A i \in DOMAIN diags : diags[i].msg \in ReconciliationMsgs
          /\ (RootAst.ports = <<>> \/ ~BareEntry(RootAst.ports[1])) =>
                diags = <<>> /\ ports = <<>>
    /\ \A k \in LoweredPorts :
          LET h == hirs[RootPorts[k]].val
              entry == RootAst.ports[k]
          IN /\ h.dir = entry.dir[1]
             /\ h.name = entry.name
             /\ nodes[h.ty].ast = AstType(entry.ty)
             /\ IF IsSome(entry.expr)
                THEN IsSome(h.default) /\ nodes[h.default[1]].ast = AstExpr(entry.expr[1])
                ELSE h.default = None

(* A module with a non-ANSI port list whose body declares a port twice has   *)
(* been lowered and then its second port, written with a direction: the      *)
(* reconciliation reported the body, the port is as its entry wrote it.      *)
C24_Witness ==
    /\ RootIsModule /\ hirs[1].ok
    /\ Len(RootAst.ports) = 2
    /\ BareEntry(RootAst.ports[1])
    /\ 2 \in LoweredPorts
    /\ hirs[RootPorts[2]].val.dir = "Input"
    /\ DiagsWith("port declared multiple times") # <<>>
    /\ NonAnsiRan(1)

(* A module with an ANSI port list whose body declares a port with both a    *)
(* variable and a net has been lowered without a diagnostic.                 *)
AnsiFrameCase ==
    /\ RootIsModule /\ OnlyRoot /\ hirs[1].ok
    /\ RootAst.ports # <<>>
    /\ ~BareEntry(RootAst.ports[1])
    /\ Len(RootAst.items) = 3
    /\ diags = <<>>

----------------------------------------------------------------------------
(* Generate-for.                                                             *)

RootIsGenFor == RootIs("GenFor")

(* The genvars the root generate-for declares; none when its initialisation  *)
(* is another statement.                                                     *)
RootGenvars ==
    IF RootAst.init.data.k = "GenvarDeclStmt" THEN RootAst.init.data.decls ELSE <<>>

(* The nodes allocated for `items` are exactly the nodes after node `last`,  *)
(* the first the child of `rib` and each other the child of the one before.  *)
BlockAfter(last, rib, items) ==
    LET expected == NodesOfItems(items, 1)
    IN /\ Len(nodes) = last + Len(expected)
       /\ \A j \in DOMAIN expected :
            /\ nodes[last + j].ast.node = expected[j][1]
            /\ nodes[last + j].parent = IF j = 1 THEN rib ELSE last + j - 1

(* C25: a lowered generate-for with n genvars has them as nodes 2..n+1 in    *)
(* source order, the first the child of the generate-for and each other the  *)
(* child of the genvar before it; the condition and the step follow, both    *)
(* children of the last genvar; the nodes of the body follow those, lowered  *)
(* as a module block from the last genvar.  A generate-for whose             *)
(* initialisation is not a genvar declaration fails with one "not a valid    *)
(* genvar initialization" error and without a node allocated.                *)
C25_GenForRibs ==
    (RootIsGenFor /\ OnlyRoot) =>
        LET n == Len(RootGenvars)
        IN IF RootAst.init.data.k = "GenvarDeclStmt"
           THEN /\ hirs[1].ok
                /\ diags = <<>>
                /\ hirs[1].val.kind.k = "For"
                /\ hirs[1].val.kind.init = [j \in 1..n |-> 1 + j]
                /\ \A j \in 1..n :
                      /\ nodes[1 + j].ast = [node |-> "GenvarDecl", ast |-> RootGenvars[j]]
                      /\ nodes[1 + j].parent = j
                /\ hirs[1].val.kind.cond = n + 2
                /\ nodes[n + 2] = [ast |-> AstExpr(RootAst.cond), parent |-> n + 1]
                /\ hirs[1].val.kind.step = n + 3
                /\ nodes[n + 3] = [ast |-> AstExpr(RootAst.step), parent |-> n + 1]
                /\ BlockAfter(n + 3, n + 1, RootAst.block.items)
           ELSE /\ hirs[1] = Err
                /\ Len(diags) = 1
                /\ diags[1].sev = "error"
                /\ diags[1].msg = "is not a valid genvar initialization"
                /\ Len(nodes) = 1

(* A generate-for of two genvars and a body of two items has been lowered:   *)
(* the first node of the body is the child of the second genvar.             *)
C25_Witness ==
    /\ RootIsGenFor /\ OnlyRoot /\ hirs[1].ok
    /\ Len(RootGenvars) = 2
    /\ Len(RootAst.block.items) = 2
    /\ Len(nodes) > 5
    /\ nodes[6].parent = 3
    /\ nodes[4].parent = 3

(* A generate-for initialised by an expression statement has failed. *)
BadGenvarInitCase ==
    /\ RootIsGenFor /\ OnlyRoot
    /\ RootAst.init.data.k = "ExprStmt"
    /\ RootAst.block.items # <<>>
    /\ hirs[1] = Err
    /\ Len(diags) = 1

----------------------------------------------------------------------------
(* For statements.                                                           *)

RootIsFor == RootIs("Stmt") /\ RootAst.data.k = "ForStmt"

(* C26: a lowered for statement has allocated its initialiser, condition,    *)
(* step and body in that order.  The initialiser is the child of the for     *)
(* statement; condition, step and body are children of the initialiser, so   *)
(* their rib chain is the initialiser and then the for statement, and the    *)
(* chain of the initialiser holds none of them.  That stays so when one of   *)
(* the four is lowered in turn.                                              *)
C26_ForRibs ==
    (RootIsFor /\ RootLowered) =>
        LET loop == hirs[1].val.kind
            init == loop.kind.init
            rest == {loop.kind.cond, loop.kind.step, loop.body}
        IN /\ hirs[1].ok
           /\ loop.k = "Loop" /\ loop.kind.k = "For"
           /\ <<init, loop.kind.cond, loop.kind.step, loop.body>> = <<2, 3, 4, 5>>
           /\ nodes[init] = [ast |-> AstStmt(RootAst.data.init), parent |-> 1]
           /\ nodes[loop.kind.cond].ast = AstExpr(RootAst.data.cond)
           /\ nodes[loop.kind.step].ast = AstExpr(RootAst.data.step)
           /\ nodes[loop.body].ast = AstStmt(RootAst.data.body)
           /\ \A c \in rest : nodes[c].parent = init /\ Ancestors(c) = {init, 1}
           /\ Ancestors(init) = {1}

(* A for statement has been lowered and then its initialiser, a variable     *)
(* declaration: the condition is still the child of the initialiser.         *)
C26_Witness ==
    /\ RootIsFor /\ RootLowered
    /\ RootAst.data.init.data.k = "VarDeclStmt"
    /\ hirs[2].ok
    /\ nodes[3].parent = 2
    /\ nodes[5].parent = 2

(* The body of a lowered for statement, a block, has been lowered: its       *)
(* statement reaches the for statement through the initialiser.              *)
ForBodyCase ==
    /\ RootIsFor /\ RootLowered
    /\ RootAst.data.body.data.k = "SequentialBlock"
    /\ hirs[5].ok
    /\ Len(nodes) = 6
    /\ Ancestors(6) = {5, 2, 1}

----------------------------------------------------------------------------
(* The redeclaration errors of the merge.                                    *)

(* C27: a reconciled module has no "net port redeclared as variable" and no  *)
(* "variable port redeclared as net" diagnostic.  A port record that the     *)
(* scans left with a kind comes out of the merge with that kind and without  *)
(* fragments; a record whose kind the merge changed had none before.         *)
C27_NeverRedeclared ==
    (RootIsModule /\ RootLowered) =>
        /\ DiagsWith("net port redeclared as variable") = <<>>
        /\ DiagsWith("variable port redeclared as net") = <<>>
        /\ \A n \in DOMAIN ports :
              /\ IsSome(Scanned[n].kind) =>
                    /\ ports[n].kind = Scanned[n].kind
                    /\ ports[n].var_decl = None
                    /\ ports[n].net_decl = None
              /\ ports[n].kind # Scanned[n].kind =>
                    /\ Scanned[n].kind = None
                    /\ HasOneFragment(Scanned[n])

(* `input wire a;` with `logic a;` has been reconciled: the variable is      *)
(* reported as forbidden for a complete port, not as a redeclaration, and    *)
(* the port is still a net.                                                  *)
C27_Witness ==
    /\ RootIsModule /\ RootLowered
    /\ "a" \in DOMAIN ports
    /\ Scanned["a"].kind = Some([k |-> "Net", net_type |-> "wire"])
    /\ IsSome(Scanned["a"].var_decl) /\ IsNone(Scanned["a"].net_decl)
    /\ Len(DiagsAbout("port is complete", "a")) = 1
    /\ ports["a"].kind = Some([k |-> "Net", net_type |-> "wire"])

(* `input var a;` with `wire [7:0] a;` has been reconciled: the net is       *)
(* reported as forbidden for a complete port, and the port is still a        *)
(* variable.                                                                 *)
VarPortWithNetCase ==
    /\ RootIsModule /\ RootLowered
    /\ "a" \in DOMAIN ports
    /\ Scanned["a"].kind = Some([k |-> "Var"])
    /\ IsSome(Scanned["a"].net_decl) /\ IsNone(Scanned["a"].var_decl)
    /\ Len(DiagsAbout("port is complete", "a")) = 1
    /\ ports["a"].kind = Some([k |-> "Var"])

(* `input a;` with `logic a;` has been reconciled: the port, without a kind  *)
(* before, is a variable now.                                                *)
KindFromFragmentCase ==
    /\ RootIsModule /\ RootLowered
    /\ "a" \in DOMAIN ports
    /\ Scanned["a"].kind = None
    /\ ports["a"].kind = Some([k |-> "Var"])
    /\ diags = <<>>

----------------------------------------------------------------------------
(* Failures of module lowering.                                              *)

(* The positions of the port list entries of the root that are not named     *)
(* ports.                                                                    *)
UnnamedEntries == {k \in DOMAIN RootAst.ports : RootAst.ports[k].k # "Named"}

(* The first of them. *)
FirstUnnamed == CHOOSE k \in UnnamedEntries : \A j \in UnnamedEntries : k <= j

(* The diagnostics of the reconciliation, in order. *)
ReconciliationDiags == SelectSeq(diags, LAMBDA d : d.msg \in ReconciliationMsgs)

(* C28: the reconciliation of the port list of a module returns Ok whatever  *)
(* it reports.  A module whose port entries are all named ports is lowered   *)
(* successfully, its ports and the nodes of its body allocated, with the     *)
(* errors of the reconciliation as its only diagnostics.  A module with      *)
(* another port entry fails at the first such entry, after the               *)
(* reconciliation and the ports before the entry, with one "not implemented" *)
(* diagnostic citing the entry and with no node of the body allocated.       *)
C28_ModuleFailure ==
    (RootIsModule /\ OnlyRoot) =>
        /\ lower_module_ports([nodes |-> <<nodes[1]>>, diags |-> <<>>, ports |-> <<>>,
                               logs |-> <<>>],
                              RootAst.ports, RootAst.items).res = Ok(<<>>)
        /\ IF UnnamedEntries = {}
           THEN /\ hirs[1].ok
                /\ Len(RootPorts) = Len(RootAst.ports)
                /\ ChainedAfter(BodyRib, RootAst.items)
                /\ diags = ReconciliationDiags
           ELSE /\ hirs[1] = Err
                /\ Len(nodes) = FirstUnnamed
                /\ \A i \in 2..Len(nodes) : nodes[i].ast.node = "Port"
                /\ diags = Append(ReconciliationDiags,
                                  Diag("bug", "not implemented", "",
                                       <<RootAst.ports[FirstUnnamed].span>>))

(* A module with a non-ANSI list of named ports whose body declares a port   *)
(* with both a variable and a net has been lowered successfully, the error   *)
(* reported and the nodes of the two declarations allocated.                 *)
C28_Witness ==
    /\ RootIsModule /\ OnlyRoot /\ hirs[1].ok
    /\ Len(RootAst.ports) = 2
    /\ Len(RootAst.items) = 3
    /\ DiagsWith("port doubly declared as variable and net") # <<>>
    /\ Len(nodes) = 3 + 4

(* A module whose second port entry is an explicit port has failed after     *)
(* the reconciliation reported a port declared twice: the first port is      *)
(* allocated, nothing of the body.                                           *)
UnnamedPortCase ==
    /\ RootIsModule /\ OnlyRoot /\ hirs[1] = Err
    /\ Len(RootAst.ports) = 2
    /\ RootAst.ports[1].k = "Named" /\ RootAst.ports[2].k = "Explicit"
    /\ Len(diags) = 2
    /\ diags[1].msg = "port declared multiple times"
    /\ diags[2].msg = "not implemented"
    /\ Len(nodes) = 2

----------------------------------------------------------------------------
(* Generate-if.                                                              *)

RootIsGenIf == RootIs("GenIf")

(* The items of the else body of the root generate-if; none without one. *)
RootElseItems ==
    IF IsSome(RootAst.else_block) THEN RootAst.else_block[1].items ELSE <<>>

(* The number of nodes a module block allocates for `items`. *)
NodesFor(items) == Len(NodesOfItems(items, 1))

(* The nodes of the main body and of the else body of the lowered root       *)
(* generate-if: those after the condition, the main body first.              *)
MainNodes == 3..(2 + NodesFor(RootAst.main_block.items))
ElseNodes ==
    (3 + NodesFor(RootAst.main_block.items))
        ..(2 + NodesFor(RootAst.main_block.items) + NodesFor(RootElseItems))

(* The nodes from `from` on are those of a module block of `items` lowered   *)
(* from the rib `rib`.                                                       *)
BlockFrom(from, rib, items) ==
    LET expected == NodesOfItems(items, 1)
    IN \A j \in DOMAIN expected :
          /\ nodes[from + j - 1].ast.node = expected[j][1]
          /\ nodes[from + j - 1].parent = IF j = 1 THEN rib ELSE from + j - 2

(* C29: a lowered generate-if has its condition as node 2, the child of the  *)
(* generate-if; the nodes of the main body follow and then those of the else *)
(* body, each body lowered as a module block from the generate-if itself.    *)
(* So the rib chain of a node of the else body holds no node of the main     *)
(* body, and the chain of a node of the main body none of the else body.     *)
C29_GenIfRibs ==
    (RootIsGenIf /\ OnlyRoot) =>
        /\ hirs[1].ok
        /\ hirs[1].val.kind.k = "If"
        /\ hirs[1].val.kind.cond = 2
        /\ nodes[2] = [ast |-> AstExpr(RootAst.cond), parent |-> 1]
        /\ IsSome(hirs[1].val.kind.else_body) = IsSome(RootAst.else_block)
        /\ DOMAIN nodes = {1, 2} \cup MainNodes \cup ElseNodes
        /\ BlockFrom(3, 1, RootAst.main_block.items)
        /\ BlockFrom(3 + NodesFor(RootAst.main_block.items), 1, RootElseItems)
        /\ \A i \in MainNodes : Ancestors(i) \subseteq MainNodes \cup {1}
        /\ \A i \in ElseNodes : Ancestors(i) \subseteq ElseNodes \cup {1}

(* A generate-if whose main body and else body hold two items each has been  *)
(* lowered: the first node of the else body is the child of the generate-if. *)
C29_Witness ==
    /\ RootIsGenIf /\ OnlyRoot /\ hirs[1].ok
    /\ Len(RootAst.main_block.items) = 2
    /\ Len(RootElseItems) = 2
    /\ Cardinality(MainNodes) > 1 /\ Cardinality(ElseNodes) > 1
    /\ nodes[3 + NodesFor(RootAst.main_block.items)].parent = 1

(* A generate-if without an else body has been lowered. *)
NoElseCase ==
    /\ RootIsGenIf /\ OnlyRoot /\ hirs[1].ok
    /\ RootAst.else_block = None
    /\ hirs[1].val.kind.else_body = None
    /\ MainNodes # {}

----------------------------------------------------------------------------
(* Decimal literals with x and z digits.                                     *)

(* The digit string of the literal holds an x, X, z, Z or ?. *)
HasSpecialDigit(d) == \E i \in DOMAIN d.value : d.value[i] \in {"x", "X", "z", "Z", "?"}

(* The size of the literal, if one is written, is a number a machine word    *)
(* holds.                                                                    *)
SizeAccepted(d) == IsNone(d.size) \/ ParseUsize(d.size[1]).ok

(* C30: a literal of base d is lowered successfully exactly when it has a    *)
(* digit, each of its digits is a decimal digit or one of x, X, z, Z, ?, and *)
(* its size, if written, is readable: an x or z digit is never the reason of *)
(* a rejection.  The value of the lowered literal is the decimal value of    *)
(* its digits with x, X, z, Z and ? read as 0, and both of its masks are     *)
(* empty whatever the digits.  A literal whose base letter is none of b, o,  *)
(* d, h fails with one "not a valid integer base" error.                     *)
C30_DecimalSpecialDigits ==
    (RootIsLit /\ RootLowered) =>
        LET d == RootLit
        IN /\ d.base = "d" =>
                /\ hirs[1].ok <=> (ValidLit(d) /\ SizeAccepted(d))
                /\ hirs[1].ok =>
                      /\ hirs[1].val.kind.k = "IntConst"
                      /\ hirs[1].val.kind.value = Magnitude(d)
                      /\ hirs[1].val.kind.special_bits = <<>>
                      /\ hirs[1].val.kind.x_bits = <<>>
                      /\ \A i \in DOMAIN diags : diags[i].sev # "error"
           /\ d.base \notin {"b", "o", "d", "h"} =>
                /\ hirs[1] = Err
                /\ Len(diags) = 1
                /\ diags[1].sev = "error"
                /\ diags[1].msg = "is not a valid integer base"

(* The literal 'd9x has been lowered: its value is 90 and its masks are      *)
(* empty.                                                                    *)
C30_Witness ==
    /\ RootIsLit /\ RootLowered /\ hirs[1].ok
    /\ RootLit.base = "d"
    /\ RootLit.value = <<"9", "x">>
    /\ HasSpecialDigit(RootLit)
    /\ hirs[1].val.kind.value = 90
    /\ hirs[1].val.kind.special_bits = <<>>
    /\ hirs[1].val.kind.x_bits = <<>>

(* A literal of base s whose digits hold a z has failed for its base. *)
BadBaseCase ==
    /\ RootIsLit /\ RootLowered /\ hirs[1] = Err
    /\ RootLit.base = "s"
    /\ HasSpecialDigit(RootLit)
    /\ Len(diags) = 1

====
